---------------------------- MODULE Spec2Model ----------------------------
(***************************************************************************)
(* kubectl-count (src/kubectl_count.go): resolve resource-type tokens to   *)
(* informers, count objects per (id, namespace) from the informers' add /  *)
(* delete callbacks, wait for every informer's HasSynced, cancel, and read *)
(* the counters as a sorted list of Records.                               *)
(*                                                                         *)
(* Strings that the program builds, splits, trims or lower-cases (tokens,  *)
(* kinds, group/versions, alias keys, ids) are sequences of characters, so *)
(* that Split, TrimSpace, ToLower and "+"-concatenation are computed.  A   *)
(* character is a string: an ASCII character is itself ("p", "\f"), any    *)
(* other is its code point written "U+" and four to six hexadecimal digits *)
(* ("U+00A0", "U+3000", "U+10400").  Namespaces are only ever compared and *)
(* are plain strings.                                                      *)
(***************************************************************************)
EXTENDS Integers, Sequences, FiniteSets, TLC

(***************************************************************************)
(* Bounds of the model.                                                    *)
(***************************************************************************)
\* objects in the cluster when the informers list it
MaxObjs == 2
\* incremental (post-list) watch events over the whole run
MaxWatch == 1
\* Add/Del calls in the CounterStore-only specification
MaxOps == 3

Namespaces == {"n1", "n2"}

(***************************************************************************)
(* strings / unicode helpers used by the program                           *)
(***************************************************************************)
Upper == <<"A","B","C","D","E","F","G","H","I","J","K","L","M",
           "N","O","P","Q","R","S","T","U","V","W","X","Y","Z">>
Lower == <<"a","b","c","d","e","f","g","h","i","j","k","l","m",
           "n","o","p","q","r","s","t","u","v","w","x","y","z">>

\* unicode.ToLower beyond ASCII: every code point that has a lower-case
\* mapping, with the code point it maps to (the simple case mappings of
\* the Unicode Character Database, by which U+0130 maps to "i" and the
\* Kelvin sign U+212A to "k")
SimpleLowerCase == {
    <<"U+00C0", "U+00E0">>, <<"U+00C1", "U+00E1">>, <<"U+00C2", "U+00E2">>,
    <<"U+00C3", "U+00E3">>, <<"U+00C4", "U+00E4">>, <<"U+00C5", "U+00E5">>,
    <<"U+00C6", "U+00E6">>, <<"U+00C7", "U+00E7">>, <<"U+00C8", "U+00E8">>,
    <<"U+00C9", "U+00E9">>, <<"U+00CA", "U+00EA">>, <<"U+00CB", "U+00EB">>,
    <<"U+00CC", "U+00EC">>, <<"U+00CD", "U+00ED">>, <<"U+00CE", "U+00EE">>,
    <<"U+00CF", "U+00EF">>, <<"U+00D0", "U+00F0">>, <<"U+00D1", "U+00F1">>,
    <<"U+00D2", "U+00F2">>, <<"U+00D3", "U+00F3">>, <<"U+00D4", "U+00F4">>,
    <<"U+00D5", "U+00F5">>, <<"U+00D6", "U+00F6">>, <<"U+00D8", "U+00F8">>,
    <<"U+00D9", "U+00F9">>, <<"U+00DA", "U+00FA">>, <<"U+00DB", "U+00FB">>,
    <<"U+00DC", "U+00FC">>, <<"U+00DD", "U+00FD">>, <<"U+00DE", "U+00FE">>,
    <<"U+0100", "U+0101">>, <<"U+0102", "U+0103">>, <<"U+0104", "U+0105">>,
    <<"U+0106", "U+0107">>, <<"U+0108", "U+0109">>, <<"U+010A", "U+010B">>,
    <<"U+010C", "U+010D">>, <<"U+010E", "U+010F">>, <<"U+0110", "U+0111">>,
    <<"U+0112", "U+0113">>, <<"U+0114", "U+0115">>, <<"U+0116", "U+0117">>,
    <<"U+0118", "U+0119">>, <<"U+011A", "U+011B">>, <<"U+011C", "U+011D">>,
    <<"U+011E", "U+011F">>, <<"U+0120", "U+0121">>, <<"U+0122", "U+0123">>,
    <<"U+0124", "U+0125">>, <<"U+0126", "U+0127">>, <<"U+0128", "U+0129">>,
    <<"U+012A", "U+012B">>, <<"U+012C", "U+012D">>, <<"U+012E", "U+012F">>,
    <<"U+0130", "i">>, <<"U+0132", "U+0133">>, <<"U+0134", "U+0135">>,
    <<"U+0136", "U+0137">>, <<"U+0139", "U+013A">>, <<"U+013B", "U+013C">>,
    <<"U+013D", "U+013E">>, <<"U+013F", "U+0140">>, <<"U+0141", "U+0142">>,
    <<"U+0143", "U+0144">>, <<"U+0145", "U+0146">>, <<"U+0147", "U+0148">>,
    <<"U+014A", "U+014B">>, <<"U+014C", "U+014D">>, <<"U+014E", "U+014F">>,
    <<"U+0150", "U+0151">>, <<"U+0152", "U+0153">>, <<"U+0154", "U+0155">>,
    <<"U+0156", "U+0157">>, <<"U+0158", "U+0159">>, <<"U+015A", "U+015B">>,
    <<"U+015C", "U+015D">>, <<"U+015E", "U+015F">>, <<"U+0160", "U+0161">>,
    <<"U+0162", "U+0163">>, <<"U+0164", "U+0165">>, <<"U+0166", "U+0167">>,
    <<"U+0168", "U+0169">>, <<"U+016A", "U+016B">>, <<"U+016C", "U+016D">>,
    <<"U+016E", "U+016F">>, <<"U+0170", "U+0171">>, <<"U+0172", "U+0173">>,
    <<"U+0174", "U+0175">>, <<"U+0176", "U+0177">>, <<"U+0178", "U+00FF">>,
    <<"U+0179", "U+017A">>, <<"U+017B", "U+017C">>, <<"U+017D", "U+017E">>,
    <<"U+0181", "U+0253">>, <<"U+0182", "U+0183">>, <<"U+0184", "U+0185">>,
    <<"U+0186", "U+0254">>, <<"U+0187", "U+0188">>, <<"U+0189", "U+0256">>,
    <<"U+018A", "U+0257">>, <<"U+018B", "U+018C">>, <<"U+018E", "U+01DD">>,
    <<"U+018F", "U+0259">>, <<"U+0190", "U+025B">>, <<"U+0191", "U+0192">>,
    <<"U+0193", "U+0260">>, <<"U+0194", "U+0263">>, <<"U+0196", "U+0269">>,
    <<"U+0197", "U+0268">>, <<"U+0198", "U+0199">>, <<"U+019C", "U+026F">>,
    <<"U+019D", "U+0272">>, <<"U+019F", "U+0275">>, <<"U+01A0", "U+01A1">>,
    <<"U+01A2", "U+01A3">>, <<"U+01A4", "U+01A5">>, <<"U+01A6", "U+0280">>,
    <<"U+01A7", "U+01A8">>, <<"U+01A9", "U+0283">>, <<"U+01AC", "U+01AD">>,
    <<"U+01AE", "U+0288">>, <<"U+01AF", "U+01B0">>, <<"U+01B1", "U+028A">>,
    <<"U+01B2", "U+028B">>, <<"U+01B3", "U+01B4">>, <<"U+01B5", "U+01B6">>,
    <<"U+01B7", "U+0292">>, <<"U+01B8", "U+01B9">>, <<"U+01BC", "U+01BD">>,
    <<"U+01C4", "U+01C6">>, <<"U+01C5", "U+01C6">>, <<"U+01C7", "U+01C9">>,
    <<"U+01C8", "U+01C9">>, <<"U+01CA", "U+01CC">>, <<"U+01CB", "U+01CC">>,
    <<"U+01CD", "U+01CE">>, <<"U+01CF", "U+01D0">>, <<"U+01D1", "U+01D2">>,
    <<"U+01D3", "U+01D4">>, <<"U+01D5", "U+01D6">>, <<"U+01D7", "U+01D8">>,
    <<"U+01D9", "U+01DA">>, <<"U+01DB", "U+01DC">>, <<"U+01DE", "U+01DF">>,
    <<"U+01E0", "U+01E1">>, <<"U+01E2", "U+01E3">>, <<"U+01E4", "U+01E5">>,
    <<"U+01E6", "U+01E7">>, <<"U+01E8", "U+01E9">>, <<"U+01EA", "U+01EB">>,
    <<"U+01EC", "U+01ED">>, <<"U+01EE", "U+01EF">>, <<"U+01F1", "U+01F3">>,
    <<"U+01F2", "U+01F3">>, <<"U+01F4", "U+01F5">>, <<"U+01F6", "U+0195">>,
    <<"U+01F7", "U+01BF">>, <<"U+01F8", "U+01F9">>, <<"U+01FA", "U+01FB">>,
    <<"U+01FC", "U+01FD">>, <<"U+01FE", "U+01FF">>, <<"U+0200", "U+0201">>,
    <<"U+0202", "U+0203">>, <<"U+0204", "U+0205">>, <<"U+0206", "U+0207">>,
    <<"U+0208", "U+0209">>, <<"U+020A", "U+020B">>, <<"U+020C", "U+020D">>,
    <<"U+020E", "U+020F">>, <<"U+0210", "U+0211">>, <<"U+0212", "U+0213">>,
    <<"U+0214", "U+0215">>, <<"U+0216", "U+0217">>, <<"U+0218", "U+0219">>,
    <<"U+021A", "U+021B">>, <<"U+021C", "U+021D">>, <<"U+021E", "U+021F">>,
    <<"U+0220", "U+019E">>, <<"U+0222", "U+0223">>, <<"U+0224", "U+0225">>,
    <<"U+0226", "U+0227">>, <<"U+0228", "U+0229">>, <<"U+022A", "U+022B">>,
    <<"U+022C", "U+022D">>, <<"U+022E", "U+022F">>, <<"U+0230", "U+0231">>,
    <<"U+0232", "U+0233">>, <<"U+023A", "U+2C65">>, <<"U+023B", "U+023C">>,
    <<"U+023D", "U+019A">>, <<"U+023E", "U+2C66">>, <<"U+0241", "U+0242">>,
    <<"U+0243", "U+0180">>, <<"U+0244", "U+0289">>, <<"U+0245", "U+028C">>,
    <<"U+0246", "U+0247">>, <<"U+0248", "U+0249">>, <<"U+024A", "U+024B">>,
    <<"U+024C", "U+024D">>, <<"U+024E", "U+024F">>, <<"U+0370", "U+0371">>,
    <<"U+0372", "U+0373">>, <<"U+0376", "U+0377">>, <<"U+037F", "U+03F3">>,
    <<"U+0386", "U+03AC">>, <<"U+0388", "U+03AD">>, <<"U+0389", "U+03AE">>,
    <<"U+038A", "U+03AF">>, <<"U+038C", "U+03CC">>, <<"U+038E", "U+03CD">>,
    <<"U+038F", "U+03CE">>, <<"U+0391", "U+03B1">>, <<"U+0392", "U+03B2">>,
    <<"U+0393", "U+03B3">>, <<"U+0394", "U+03B4">>, <<"U+0395", "U+03B5">>,
    <<"U+0396", "U+03B6">>, <<"U+0397", "U+03B7">>, <<"U+0398", "U+03B8">>,
    <<"U+0399", "U+03B9">>, <<"U+039A", "U+03BA">>, <<"U+039B", "U+03BB">>,
    <<"U+039C", "U+03BC">>, <<"U+039D", "U+03BD">>, <<"U+039E", "U+03BE">>,
    <<"U+039F", "U+03BF">>, <<"U+03A0", "U+03C0">>, <<"U+03A1", "U+03C1">>,
    <<"U+03A3", "U+03C3">>, <<"U+03A4", "U+03C4">>, <<"U+03A5", "U+03C5">>,
    <<"U+03A6", "U+03C6">>, <<"U+03A7", "U+03C7">>, <<"U+03A8", "U+03C8">>,
    <<"U+03A9", "U+03C9">>, <<"U+03AA", "U+03CA">>, <<"U+03AB", "U+03CB">>,
    <<"U+03CF", "U+03D7">>, <<"U+03D8", "U+03D9">>, <<"U+03DA", "U+03DB">>,
    <<"U+03DC", "U+03DD">>, <<"U+03DE", "U+03DF">>, <<"U+03E0", "U+03E1">>,
    <<"U+03E2", "U+03E3">>, <<"U+03E4", "U+03E5">>, <<"U+03E6", "U+03E7">>,
    <<"U+03E8", "U+03E9">>, <<"U+03EA", "U+03EB">>, <<"U+03EC", "U+03ED">>,
    <<"U+03EE", "U+03EF">>, <<"U+03F4", "U+03B8">>, <<"U+03F7", "U+03F8">>,
    <<"U+03F9", "U+03F2">>, <<"U+03FA", "U+03FB">>, <<"U+03FD", "U+037B">>,
    <<"U+03FE", "U+037C">>, <<"U+03FF", "U+037D">>, <<"U+0400", "U+0450">>,
    <<"U+0401", "U+0451">>, <<"U+0402", "U+0452">>, <<"U+0403", "U+0453">>,
    <<"U+0404", "U+0454">>, <<"U+0405", "U+0455">>, <<"U+0406", "U+0456">>,
    <<"U+0407", "U+0457">>, <<"U+0408", "U+0458">>, <<"U+0409", "U+0459">>,
    <<"U+040A", "U+045A">>, <<"U+040B", "U+045B">>, <<"U+040C", "U+045C">>,
    <<"U+040D", "U+045D">>, <<"U+040E", "U+045E">>, <<"U+040F", "U+045F">>,
    <<"U+0410", "U+0430">>, <<"U+0411", "U+0431">>, <<"U+0412", "U+0432">>,
    <<"U+0413", "U+0433">>, <<"U+0414", "U+0434">>, <<"U+0415", "U+0435">>,
    <<"U+0416", "U+0436">>, <<"U+0417", "U+0437">>, <<"U+0418", "U+0438">>,
    <<"U+0419", "U+0439">>, <<"U+041A", "U+043A">>, <<"U+041B", "U+043B">>,
    <<"U+041C", "U+043C">>, <<"U+041D", "U+043D">>, <<"U+041E", "U+043E">>,
    <<"U+041F", "U+043F">>, <<"U+0420", "U+0440">>, <<"U+0421", "U+0441">>,
    <<"U+0422", "U+0442">>, <<"U+0423", "U+0443">>, <<"U+0424", "U+0444">>,
    <<"U+0425", "U+0445">>, <<"U+0426", "U+0446">>, <<"U+0427", "U+0447">>,
    <<"U+0428", "U+0448">>, <<"U+0429", "U+0449">>, <<"U+042A", "U+044A">>,
    <<"U+042B", "U+044B">>, <<"U+042C", "U+044C">>, <<"U+042D", "U+044D">>,
    <<"U+042E", "U+044E">>, <<"U+042F", "U+044F">>, <<"U+0460", "U+0461">>,
    <<"U+0462", "U+0463">>, <<"U+0464", "U+0465">>, <<"U+0466", "U+0467">>,
    <<"U+0468", "U+0469">>, <<"U+046A", "U+046B">>, <<"U+046C", "U+046D">>,
    <<"U+046E", "U+046F">>, <<"U+0470", "U+0471">>, <<"U+0472", "U+0473">>,
    <<"U+0474", "U+0475">>, <<"U+0476", "U+0477">>, <<"U+0478", "U+0479">>,
    <<"U+047A", "U+047B">>, <<"U+047C", "U+047D">>, <<"U+047E", "U+047F">>,
    <<"U+0480", "U+0481">>, <<"U+048A", "U+048B">>, <<"U+048C", "U+048D">>,
    <<"U+048E", "U+048F">>, <<"U+0490", "U+0491">>, <<"U+0492", "U+0493">>,
    <<"U+0494", "U+0495">>, <<"U+0496", "U+0497">>, <<"U+0498", "U+0499">>,
    <<"U+049A", "U+049B">>, <<"U+049C", "U+049D">>, <<"U+049E", "U+049F">>,
    <<"U+04A0", "U+04A1">>, <<"U+04A2", "U+04A3">>, <<"U+04A4", "U+04A5">>,
    <<"U+04A6", "U+04A7">>, <<"U+04A8", "U+04A9">>, <<"U+04AA", "U+04AB">>,
    <<"U+04AC", "U+04AD">>, <<"U+04AE", "U+04AF">>, <<"U+04B0", "U+04B1">>,
    <<"U+04B2", "U+04B3">>, <<"U+04B4", "U+04B5">>, <<"U+04B6", "U+04B7">>,
    <<"U+04B8", "U+04B9">>, <<"U+04BA", "U+04BB">>, <<"U+04BC", "U+04BD">>,
    <<"U+04BE", "U+04BF">>, <<"U+04C0", "U+04CF">>, <<"U+04C1", "U+04C2">>,
    <<"U+04C3", "U+04C4">>, <<"U+04C5", "U+04C6">>, <<"U+04C7", "U+04C8">>,
    <<"U+04C9", "U+04CA">>, <<"U+04CB", "U+04CC">>, <<"U+04CD", "U+04CE">>,
    <<"U+04D0", "U+04D1">>, <<"U+04D2", "U+04D3">>, <<"U+04D4", "U+04D5">>,
    <<"U+04D6", "U+04D7">>, <<"U+04D8", "U+04D9">>, <<"U+04DA", "U+04DB">>,
    <<"U+04DC", "U+04DD">>, <<"U+04DE", "U+04DF">>, <<"U+04E0", "U+04E1">>,
    <<"U+04E2", "U+04E3">>, <<"U+04E4", "U+04E5">>, <<"U+04E6", "U+04E7">>,
    <<"U+04E8", "U+04E9">>, <<"U+04EA", "U+04EB">>, <<"U+04EC", "U+04ED">>,
    <<"U+04EE", "U+04EF">>, <<"U+04F0", "U+04F1">>, <<"U+04F2", "U+04F3">>,
    <<"U+04F4", "U+04F5">>, <<"U+04F6", "U+04F7">>, <<"U+04F8", "U+04F9">>,
    <<"U+04FA", "U+04FB">>, <<"U+04FC", "U+04FD">>, <<"U+04FE", "U+04FF">>,
    <<"U+0500", "U+0501">>, <<"U+0502", "U+0503">>, <<"U+0504", "U+0505">>,
    <<"U+0506", "U+0507">>, <<"U+0508", "U+0509">>, <<"U+050A", "U+050B">>,
    <<"U+050C", "U+050D">>, <<"U+050E", "U+050F">>, <<"U+0510", "U+0511">>,
    <<"U+0512", "U+0513">>, <<"U+0514", "U+0515">>, <<"U+0516", "U+0517">>,
    <<"U+0518", "U+0519">>, <<"U+051A", "U+051B">>, <<"U+051C", "U+051D">>,
    <<"U+051E", "U+051F">>, <<"U+0520", "U+0521">>, <<"U+0522", "U+0523">>,
    <<"U+0524", "U+0525">>, <<"U+0526", "U+0527">>, <<"U+0528", "U+0529">>,
    <<"U+052A", "U+052B">>, <<"U+052C", "U+052D">>, <<"U+052E", "U+052F">>,
    <<"U+0531", "U+0561">>, <<"U+0532", "U+0562">>, <<"U+0533", "U+0563">>,
    <<"U+0534", "U+0564">>, <<"U+0535", "U+0565">>, <<"U+0536", "U+0566">>,
    <<"U+0537", "U+0567">>, <<"U+0538", "U+0568">>, <<"U+0539", "U+0569">>,
    <<"U+053A", "U+056A">>, <<"U+053B", "U+056B">>, <<"U+053C", "U+056C">>,
    <<"U+053D", "U+056D">>, <<"U+053E", "U+056E">>, <<"U+053F", "U+056F">>,
    <<"U+0540", "U+0570">>, <<"U+0541", "U+0571">>, <<"U+0542", "U+0572">>,
    <<"U+0543", "U+0573">>, <<"U+0544", "U+0574">>, <<"U+0545", "U+0575">>,
    <<"U+0546", "U+0576">>, <<"U+0547", "U+0577">>, <<"U+0548", "U+0578">>,
    <<"U+0549", "U+0579">>, <<"U+054A", "U+057A">>, <<"U+054B", "U+057B">>,
    <<"U+054C", "U+057C">>, <<"U+054D", "U+057D">>, <<"U+054E", "U+057E">>,
    <<"U+054F", "U+057F">>, <<"U+0550", "U+0580">>, <<"U+0551", "U+0581">>,
    <<"U+0552", "U+0582">>, <<"U+0553", "U+0583">>, <<"U+0554", "U+0584">>,
    <<"U+0555", "U+0585">>, <<"U+0556", "U+0586">>, <<"U+10A0", "U+2D00">>,
    <<"U+10A1", "U+2D01">>, <<"U+10A2", "U+2D02">>, <<"U+10A3", "U+2D03">>,
    <<"U+10A4", "U+2D04">>, <<"U+10A5", "U+2D05">>, <<"U+10A6", "U+2D06">>,
    <<"U+10A7", "U+2D07">>, <<"U+10A8", "U+2D08">>, <<"U+10A9", "U+2D09">>,
    <<"U+10AA", "U+2D0A">>, <<"U+10AB", "U+2D0B">>, <<"U+10AC", "U+2D0C">>,
    <<"U+10AD", "U+2D0D">>, <<"U+10AE", "U+2D0E">>, <<"U+10AF", "U+2D0F">>,
    <<"U+10B0", "U+2D10">>, <<"U+10B1", "U+2D11">>, <<"U+10B2", "U+2D12">>,
    <<"U+10B3", "U+2D13">>, <<"U+10B4", "U+2D14">>, <<"U+10B5", "U+2D15">>,
    <<"U+10B6", "U+2D16">>, <<"U+10B7", "U+2D17">>, <<"U+10B8", "U+2D18">>,
    <<"U+10B9", "U+2D19">>, <<"U+10BA", "U+2D1A">>, <<"U+10BB", "U+2D1B">>,
    <<"U+10BC", "U+2D1C">>, <<"U+10BD", "U+2D1D">>, <<"U+10BE", "U+2D1E">>,
    <<"U+10BF", "U+2D1F">>, <<"U+10C0", "U+2D20">>, <<"U+10C1", "U+2D21">>,
    <<"U+10C2", "U+2D22">>, <<"U+10C3", "U+2D23">>, <<"U+10C4", "U+2D24">>,
    <<"U+10C5", "U+2D25">>, <<"U+10C7", "U+2D27">>, <<"U+10CD", "U+2D2D">>,
    <<"U+13A0", "U+AB70">>, <<"U+13A1", "U+AB71">>, <<"U+13A2", "U+AB72">>,
    <<"U+13A3", "U+AB73">>, <<"U+13A4", "U+AB74">>, <<"U+13A5", "U+AB75">>,
    <<"U+13A6", "U+AB76">>, <<"U+13A7", "U+AB77">>, <<"U+13A8", "U+AB78">>,
    <<"U+13A9", "U+AB79">>, <<"U+13AA", "U+AB7A">>, <<"U+13AB", "U+AB7B">>,
    <<"U+13AC", "U+AB7C">>, <<"U+13AD", "U+AB7D">>, <<"U+13AE", "U+AB7E">>,
    <<"U+13AF", "U+AB7F">>, <<"U+13B0", "U+AB80">>, <<"U+13B1", "U+AB81">>,
    <<"U+13B2", "U+AB82">>, <<"U+13B3", "U+AB83">>, <<"U+13B4", "U+AB84">>,
    <<"U+13B5", "U+AB85">>, <<"U+13B6", "U+AB86">>, <<"U+13B7", "U+AB87">>,
    <<"U+13B8", "U+AB88">>, <<"U+13B9", "U+AB89">>, <<"U+13BA", "U+AB8A">>,
    <<"U+13BB", "U+AB8B">>, <<"U+13BC", "U+AB8C">>, <<"U+13BD", "U+AB8D">>,
    <<"U+13BE", "U+AB8E">>, <<"U+13BF", "U+AB8F">>, <<"U+13C0", "U+AB90">>,
    <<"U+13C1", "U+AB91">>, <<"U+13C2", "U+AB92">>, <<"U+13C3", "U+AB93">>,
    <<"U+13C4", "U+AB94">>, <<"U+13C5", "U+AB95">>, <<"U+13C6", "U+AB96">>,
    <<"U+13C7", "U+AB97">>, <<"U+13C8", "U+AB98">>, <<"U+13C9", "U+AB99">>,
    <<"U+13CA", "U+AB9A">>, <<"U+13CB", "U+AB9B">>, <<"U+13CC", "U+AB9C">>,
    <<"U+13CD", "U+AB9D">>, <<"U+13CE", "U+AB9E">>, <<"U+13CF", "U+AB9F">>,
    <<"U+13D0", "U+ABA0">>, <<"U+13D1", "U+ABA1">>, <<"U+13D2", "U+ABA2">>,
    <<"U+13D3", "U+ABA3">>, <<"U+13D4", "U+ABA4">>, <<"U+13D5", "U+ABA5">>,
    <<"U+13D6", "U+ABA6">>, <<"U+13D7", "U+ABA7">>, <<"U+13D8", "U+ABA8">>,
    <<"U+13D9", "U+ABA9">>, <<"U+13DA", "U+ABAA">>, <<"U+13DB", "U+ABAB">>,
    <<"U+13DC", "U+ABAC">>, <<"U+13DD", "U+ABAD">>, <<"U+13DE", "U+ABAE">>,
    <<"U+13DF", "U+ABAF">>, <<"U+13E0", "U+ABB0">>, <<"U+13E1", "U+ABB1">>,
    <<"U+13E2", "U+ABB2">>, <<"U+13E3", "U+ABB3">>, <<"U+13E4", "U+ABB4">>,
    <<"U+13E5", "U+ABB5">>, <<"U+13E6", "U+ABB6">>, <<"U+13E7", "U+ABB7">>,
    <<"U+13E8", "U+ABB8">>, <<"U+13E9", "U+ABB9">>, <<"U+13EA", "U+ABBA">>,
    <<"U+13EB", "U+ABBB">>, <<"U+13EC", "U+ABBC">>, <<"U+13ED", "U+ABBD">>,
    <<"U+13EE", "U+ABBE">>, <<"U+13EF", "U+ABBF">>, <<"U+13F0", "U+13F8">>,
    <<"U+13F1", "U+13F9">>, <<"U+13F2", "U+13FA">>, <<"U+13F3", "U+13FB">>,
    <<"U+13F4", "U+13FC">>, <<"U+13F5", "U+13FD">>, <<"U+1C90", "U+10D0">>,
    <<"U+1C91", "U+10D1">>, <<"U+1C92", "U+10D2">>, <<"U+1C93", "U+10D3">>,
    <<"U+1C94", "U+10D4">>, <<"U+1C95", "U+10D5">>, <<"U+1C96", "U+10D6">>,
    <<"U+1C97", "U+10D7">>, <<"U+1C98", "U+10D8">>, <<"U+1C99", "U+10D9">>,
    <<"U+1C9A", "U+10DA">>, <<"U+1C9B", "U+10DB">>, <<"U+1C9C", "U+10DC">>,
    <<"U+1C9D", "U+10DD">>, <<"U+1C9E", "U+10DE">>, <<"U+1C9F", "U+10DF">>,
    <<"U+1CA0", "U+10E0">>, <<"U+1CA1", "U+10E1">>, <<"U+1CA2", "U+10E2">>,
    <<"U+1CA3", "U+10E3">>, <<"U+1CA4", "U+10E4">>, <<"U+1CA5", "U+10E5">>,
    <<"U+1CA6", "U+10E6">>, <<"U+1CA7", "U+10E7">>, <<"U+1CA8", "U+10E8">>,
    <<"U+1CA9", "U+10E9">>, <<"U+1CAA", "U+10EA">>, <<"U+1CAB", "U+10EB">>,
    <<"U+1CAC", "U+10EC">>, <<"U+1CAD", "U+10ED">>, <<"U+1CAE", "U+10EE">>,
    <<"U+1CAF", "U+10EF">>, <<"U+1CB0", "U+10F0">>, <<"U+1CB1", "U+10F1">>,
    <<"U+1CB2", "U+10F2">>, <<"U+1CB3", "U+10F3">>, <<"U+1CB4", "U+10F4">>,
    <<"U+1CB5", "U+10F5">>, <<"U+1CB6", "U+10F6">>, <<"U+1CB7", "U+10F7">>,
    <<"U+1CB8", "U+10F8">>, <<"U+1CB9", "U+10F9">>, <<"U+1CBA", "U+10FA">>,
    <<"U+1CBD", "U+10FD">>, <<"U+1CBE", "U+10FE">>, <<"U+1CBF", "U+10FF">>,
    <<"U+1E00", "U+1E01">>, <<"U+1E02", "U+1E03">>, <<"U+1E04", "U+1E05">>,
    <<"U+1E06", "U+1E07">>, <<"U+1E08", "U+1E09">>, <<"U+1E0A", "U+1E0B">>,
    <<"U+1E0C", "U+1E0D">>, <<"U+1E0E", "U+1E0F">>, <<"U+1E10", "U+1E11">>,
    <<"U+1E12", "U+1E13">>, <<"U+1E14", "U+1E15">>, <<"U+1E16", "U+1E17">>,
    <<"U+1E18", "U+1E19">>, <<"U+1E1A", "U+1E1B">>, <<"U+1E1C", "U+1E1D">>,
    <<"U+1E1E", "U+1E1F">>, <<"U+1E20", "U+1E21">>, <<"U+1E22", "U+1E23">>,
    <<"U+1E24", "U+1E25">>, <<"U+1E26", "U+1E27">>, <<"U+1E28", "U+1E29">>,
    <<"U+1E2A", "U+1E2B">>, <<"U+1E2C", "U+1E2D">>, <<"U+1E2E", "U+1E2F">>,
    <<"U+1E30", "U+1E31">>, <<"U+1E32", "U+1E33">>, <<"U+1E34", "U+1E35">>,
    <<"U+1E36", "U+1E37">>, <<"U+1E38", "U+1E39">>, <<"U+1E3A", "U+1E3B">>,
    <<"U+1E3C", "U+1E3D">>, <<"U+1E3E", "U+1E3F">>, <<"U+1E40", "U+1E41">>,
    <<"U+1E42", "U+1E43">>, <<"U+1E44", "U+1E45">>, <<"U+1E46", "U+1E47">>,
    <<"U+1E48", "U+1E49">>, <<"U+1E4A", "U+1E4B">>, <<"U+1E4C", "U+1E4D">>,
    <<"U+1E4E", "U+1E4F">>, <<"U+1E50", "U+1E51">>, <<"U+1E52", "U+1E53">>,
    <<"U+1E54", "U+1E55">>, <<"U+1E56", "U+1E57">>, <<"U+1E58", "U+1E59">>,
    <<"U+1E5A", "U+1E5B">>, <<"U+1E5C", "U+1E5D">>, <<"U+1E5E", "U+1E5F">>,
    <<"U+1E60", "U+1E61">>, <<"U+1E62", "U+1E63">>, <<"U+1E64", "U+1E65">>,
    <<"U+1E66", "U+1E67">>, <<"U+1E68", "U+1E69">>, <<"U+1E6A", "U+1E6B">>,
    <<"U+1E6C", "U+1E6D">>, <<"U+1E6E", "U+1E6F">>, <<"U+1E70", "U+1E71">>,
    <<"U+1E72", "U+1E73">>, <<"U+1E74", "U+1E75">>, <<"U+1E76", "U+1E77">>,
    <<"U+1E78", "U+1E79">>, <<"U+1E7A", "U+1E7B">>, <<"U+1E7C", "U+1E7D">>,
    <<"U+1E7E", "U+1E7F">>, <<"U+1E80", "U+1E81">>, <<"U+1E82", "U+1E83">>,
    <<"U+1E84", "U+1E85">>, <<"U+1E86", "U+1E87">>, <<"U+1E88", "U+1E89">>,
    <<"U+1E8A", "U+1E8B">>, <<"U+1E8C", "U+1E8D">>, <<"U+1E8E", "U+1E8F">>,
    <<"U+1E90", "U+1E91">>, <<"U+1E92", "U+1E93">>, <<"U+1E94", "U+1E95">>,
    <<"U+1E9E", "U+00DF">>, <<"U+1EA0", "U+1EA1">>, <<"U+1EA2", "U+1EA3">>,
    <<"U+1EA4", "U+1EA5">>, <<"U+1EA6", "U+1EA7">>, <<"U+1EA8", "U+1EA9">>,
    <<"U+1EAA", "U+1EAB">>, <<"U+1EAC", "U+1EAD">>, <<"U+1EAE", "U+1EAF">>,
    <<"U+1EB0", "U+1EB1">>, <<"U+1EB2", "U+1EB3">>, <<"U+1EB4", "U+1EB5">>,
    <<"U+1EB6", "U+1EB7">>, <<"U+1EB8", "U+1EB9">>, <<"U+1EBA", "U+1EBB">>,
    <<"U+1EBC", "U+1EBD">>, <<"U+1EBE", "U+1EBF">>, <<"U+1EC0", "U+1EC1">>,
    <<"U+1EC2", "U+1EC3">>, <<"U+1EC4", "U+1EC5">>, <<"U+1EC6", "U+1EC7">>,
    <<"U+1EC8", "U+1EC9">>, <<"U+1ECA", "U+1ECB">>, <<"U+1ECC", "U+1ECD">>,
    <<"U+1ECE", "U+1ECF">>, <<"U+1ED0", "U+1ED1">>, <<"U+1ED2", "U+1ED3">>,
    <<"U+1ED4", "U+1ED5">>, <<"U+1ED6", "U+1ED7">>, <<"U+1ED8", "U+1ED9">>,
    <<"U+1EDA", "U+1EDB">>, <<"U+1EDC", "U+1EDD">>, <<"U+1EDE", "U+1EDF">>,
    <<"U+1EE0", "U+1EE1">>, <<"U+1EE2", "U+1EE3">>, <<"U+1EE4", "U+1EE5">>,
    <<"U+1EE6", "U+1EE7">>, <<"U+1EE8", "U+1EE9">>, <<"U+1EEA", "U+1EEB">>,
    <<"U+1EEC", "U+1EED">>, <<"U+1EEE", "U+1EEF">>, <<"U+1EF0", "U+1EF1">>,
    <<"U+1EF2", "U+1EF3">>, <<"U+1EF4", "U+1EF5">>, <<"U+1EF6", "U+1EF7">>,
    <<"U+1EF8", "U+1EF9">>, <<"U+1EFA", "U+1EFB">>, <<"U+1EFC", "U+1EFD">>,
    <<"U+1EFE", "U+1EFF">>, <<"U+1F08", "U+1F00">>, <<"U+1F09", "U+1F01">>,
    <<"U+1F0A", "U+1F02">>, <<"U+1F0B", "U+1F03">>, <<"U+1F0C", "U+1F04">>,
    <<"U+1F0D", "U+1F05">>, <<"U+1F0E", "U+1F06">>, <<"U+1F0F", "U+1F07">>,
    <<"U+1F18", "U+1F10">>, <<"U+1F19", "U+1F11">>, <<"U+1F1A", "U+1F12">>,
    <<"U+1F1B", "U+1F13">>, <<"U+1F1C", "U+1F14">>, <<"U+1F1D", "U+1F15">>,
    <<"U+1F28", "U+1F20">>, <<"U+1F29", "U+1F21">>, <<"U+1F2A", "U+1F22">>,
    <<"U+1F2B", "U+1F23">>, <<"U+1F2C", "U+1F24">>, <<"U+1F2D", "U+1F25">>,
    <<"U+1F2E", "U+1F26">>, <<"U+1F2F", "U+1F27">>, <<"U+1F38", "U+1F30">>,
    <<"U+1F39", "U+1F31">>, <<"U+1F3A", "U+1F32">>, <<"U+1F3B", "U+1F33">>,
    <<"U+1F3C", "U+1F34">>, <<"U+1F3D", "U+1F35">>, <<"U+1F3E", "U+1F36">>,
    <<"U+1F3F", "U+1F37">>, <<"U+1F48", "U+1F40">>, <<"U+1F49", "U+1F41">>,
    <<"U+1F4A", "U+1F42">>, <<"U+1F4B", "U+1F43">>, <<"U+1F4C", "U+1F44">>,
    <<"U+1F4D", "U+1F45">>, <<"U+1F59", "U+1F51">>, <<"U+1F5B", "U+1F53">>,
    <<"U+1F5D", "U+1F55">>, <<"U+1F5F", "U+1F57">>, <<"U+1F68", "U+1F60">>,
    <<"U+1F69", "U+1F61">>, <<"U+1F6A", "U+1F62">>, <<"U+1F6B", "U+1F63">>,
    <<"U+1F6C", "U+1F64">>, <<"U+1F6D", "U+1F65">>, <<"U+1F6E", "U+1F66">>,
    <<"U+1F6F", "U+1F67">>, <<"U+1F88", "U+1F80">>, <<"U+1F89", "U+1F81">>,
    <<"U+1F8A", "U+1F82">>, <<"U+1F8B", "U+1F83">>, <<"U+1F8C", "U+1F84">>,
    <<"U+1F8D", "U+1F85">>, <<"U+1F8E", "U+1F86">>, <<"U+1F8F", "U+1F87">>,
    <<"U+1F98", "U+1F90">>, <<"U+1F99", "U+1F91">>, <<"U+1F9A", "U+1F92">>,
    <<"U+1F9B", "U+1F93">>, <<"U+1F9C", "U+1F94">>, <<"U+1F9D", "U+1F95">>,
    <<"U+1F9E", "U+1F96">>, <<"U+1F9F", "U+1F97">>, <<"U+1FA8", "U+1FA0">>,
    <<"U+1FA9", "U+1FA1">>, <<"U+1FAA", "U+1FA2">>, <<"U+1FAB", "U+1FA3">>,
    <<"U+1FAC", "U+1FA4">>, <<"U+1FAD", "U+1FA5">>, <<"U+1FAE", "U+1FA6">>,
    <<"U+1FAF", "U+1FA7">>, <<"U+1FB8", "U+1FB0">>, <<"U+1FB9", "U+1FB1">>,
    <<"U+1FBA", "U+1F70">>, <<"U+1FBB", "U+1F71">>, <<"U+1FBC", "U+1FB3">>,
    <<"U+1FC8", "U+1F72">>, <<"U+1FC9", "U+1F73">>, <<"U+1FCA", "U+1F74">>,
    <<"U+1FCB", "U+1F75">>, <<"U+1FCC", "U+1FC3">>, <<"U+1FD8", "U+1FD0">>,
    <<"U+1FD9", "U+1FD1">>, <<"U+1FDA", "U+1F76">>, <<"U+1FDB", "U+1F77">>,
    <<"U+1FE8", "U+1FE0">>, <<"U+1FE9", "U+1FE1">>, <<"U+1FEA", "U+1F7A">>,
    <<"U+1FEB", "U+1F7B">>, <<"U+1FEC", "U+1FE5">>, <<"U+1FF8", "U+1F78">>,
    <<"U+1FF9", "U+1F79">>, <<"U+1FFA", "U+1F7C">>, <<"U+1FFB", "U+1F7D">>,
    <<"U+1FFC", "U+1FF3">>, <<"U+2126", "U+03C9">>, <<"U+212A", "k">>,
    <<"U+212B", "U+00E5">>, <<"U+2132", "U+214E">>, <<"U+2160", "U+2170">>,
    <<"U+2161", "U+2171">>, <<"U+2162", "U+2172">>, <<"U+2163", "U+2173">>,
    <<"U+2164", "U+2174">>, <<"U+2165", "U+2175">>, <<"U+2166", "U+2176">>,
    <<"U+2167", "U+2177">>, <<"U+2168", "U+2178">>, <<"U+2169", "U+2179">>,
    <<"U+216A", "U+217A">>, <<"U+216B", "U+217B">>, <<"U+216C", "U+217C">>,
    <<"U+216D", "U+217D">>, <<"U+216E", "U+217E">>, <<"U+216F", "U+217F">>,
    <<"U+2183", "U+2184">>, <<"U+24B6", "U+24D0">>, <<"U+24B7", "U+24D1">>,
    <<"U+24B8", "U+24D2">>, <<"U+24B9", "U+24D3">>, <<"U+24BA", "U+24D4">>,
    <<"U+24BB", "U+24D5">>, <<"U+24BC", "U+24D6">>, <<"U+24BD", "U+24D7">>,
    <<"U+24BE", "U+24D8">>, <<"U+24BF", "U+24D9">>, <<"U+24C0", "U+24DA">>,
    <<"U+24C1", "U+24DB">>, <<"U+24C2", "U+24DC">>, <<"U+24C3", "U+24DD">>,
    <<"U+24C4", "U+24DE">>, <<"U+24C5", "U+24DF">>, <<"U+24C6", "U+24E0">>,
    <<"U+24C7", "U+24E1">>, <<"U+24C8", "U+24E2">>, <<"U+24C9", "U+24E3">>,
    <<"U+24CA", "U+24E4">>, <<"U+24CB", "U+24E5">>, <<"U+24CC", "U+24E6">>,
    <<"U+24CD", "U+24E7">>, <<"U+24CE", "U+24E8">>, <<"U+24CF", "U+24E9">>,
    <<"U+2C00", "U+2C30">>, <<"U+2C01", "U+2C31">>, <<"U+2C02", "U+2C32">>,
    <<"U+2C03", "U+2C33">>, <<"U+2C04", "U+2C34">>, <<"U+2C05", "U+2C35">>,
    <<"U+2C06", "U+2C36">>, <<"U+2C07", "U+2C37">>, <<"U+2C08", "U+2C38">>,
    <<"U+2C09", "U+2C39">>, <<"U+2C0A", "U+2C3A">>, <<"U+2C0B", "U+2C3B">>,
    <<"U+2C0C", "U+2C3C">>, <<"U+2C0D", "U+2C3D">>, <<"U+2C0E", "U+2C3E">>,
    <<"U+2C0F", "U+2C3F">>, <<"U+2C10", "U+2C40">>, <<"U+2C11", "U+2C41">>,
    <<"U+2C12", "U+2C42">>, <<"U+2C13", "U+2C43">>, <<"U+2C14", "U+2C44">>,
    <<"U+2C15", "U+2C45">>, <<"U+2C16", "U+2C46">>, <<"U+2C17", "U+2C47">>,
    <<"U+2C18", "U+2C48">>, <<"U+2C19", "U+2C49">>, <<"U+2C1A", "U+2C4A">>,
    <<"U+2C1B", "U+2C4B">>, <<"U+2C1C", "U+2C4C">>, <<"U+2C1D", "U+2C4D">>,
    <<"U+2C1E", "U+2C4E">>, <<"U+2C1F", "U+2C4F">>, <<"U+2C20", "U+2C50">>,
    <<"U+2C21", "U+2C51">>, <<"U+2C22", "U+2C52">>, <<"U+2C23", "U+2C53">>,
    <<"U+2C24", "U+2C54">>, <<"U+2C25", "U+2C55">>, <<"U+2C26", "U+2C56">>,
    <<"U+2C27", "U+2C57">>, <<"U+2C28", "U+2C58">>, <<"U+2C29", "U+2C59">>,
    <<"U+2C2A", "U+2C5A">>, <<"U+2C2B", "U+2C5B">>, <<"U+2C2C", "U+2C5C">>,
    <<"U+2C2D", "U+2C5D">>, <<"U+2C2E", "U+2C5E">>, <<"U+2C2F", "U+2C5F">>,
    <<"U+2C60", "U+2C61">>, <<"U+2C62", "U+026B">>, <<"U+2C63", "U+1D7D">>,
    <<"U+2C64", "U+027D">>, <<"U+2C67", "U+2C68">>, <<"U+2C69", "U+2C6A">>,
    <<"U+2C6B", "U+2C6C">>, <<"U+2C6D", "U+0251">>, <<"U+2C6E", "U+0271">>,
    <<"U+2C6F", "U+0250">>, <<"U+2C70", "U+0252">>, <<"U+2C72", "U+2C73">>,
    <<"U+2C75", "U+2C76">>, <<"U+2C7E", "U+023F">>, <<"U+2C7F", "U+0240">>,
    <<"U+2C80", "U+2C81">>, <<"U+2C82", "U+2C83">>, <<"U+2C84", "U+2C85">>,
    <<"U+2C86", "U+2C87">>, <<"U+2C88", "U+2C89">>, <<"U+2C8A", "U+2C8B">>,
    <<"U+2C8C", "U+2C8D">>, <<"U+2C8E", "U+2C8F">>, <<"U+2C90", "U+2C91">>,
    <<"U+2C92", "U+2C93">>, <<"U+2C94", "U+2C95">>, <<"U+2C96", "U+2C97">>,
    <<"U+2C98", "U+2C99">>, <<"U+2C9A", "U+2C9B">>, <<"U+2C9C", "U+2C9D">>,
    <<"U+2C9E", "U+2C9F">>, <<"U+2CA0", "U+2CA1">>, <<"U+2CA2", "U+2CA3">>,
    <<"U+2CA4", "U+2CA5">>, <<"U+2CA6", "U+2CA7">>, <<"U+2CA8", "U+2CA9">>,
    <<"U+2CAA", "U+2CAB">>, <<"U+2CAC", "U+2CAD">>, <<"U+2CAE", "U+2CAF">>,
    <<"U+2CB0", "U+2CB1">>, <<"U+2CB2", "U+2CB3">>, <<"U+2CB4", "U+2CB5">>,
    <<"U+2CB6", "U+2CB7">>, <<"U+2CB8", "U+2CB9">>, <<"U+2CBA", "U+2CBB">>,
    <<"U+2CBC", "U+2CBD">>, <<"U+2CBE", "U+2CBF">>, <<"U+2CC0", "U+2CC1">>,
    <<"U+2CC2", "U+2CC3">>, <<"U+2CC4", "U+2CC5">>, <<"U+2CC6", "U+2CC7">>,
    <<"U+2CC8", "U+2CC9">>, <<"U+2CCA", "U+2CCB">>, <<"U+2CCC", "U+2CCD">>,
    <<"U+2CCE", "U+2CCF">>, <<"U+2CD0", "U+2CD1">>, <<"U+2CD2", "U+2CD3">>,
    <<"U+2CD4", "U+2CD5">>, <<"U+2CD6", "U+2CD7">>, <<"U+2CD8", "U+2CD9">>,
    <<"U+2CDA", "U+2CDB">>, <<"U+2CDC", "U+2CDD">>, <<"U+2CDE", "U+2CDF">>,
    <<"U+2CE0", "U+2CE1">>, <<"U+2CE2", "U+2CE3">>, <<"U+2CEB", "U+2CEC">>,
    <<"U+2CED", "U+2CEE">>, <<"U+2CF2", "U+2CF3">>, <<"U+A640", "U+A641">>,
    <<"U+A642", "U+A643">>, <<"U+A644", "U+A645">>, <<"U+A646", "U+A647">>,
    <<"U+A648", "U+A649">>, <<"U+A64A", "U+A64B">>, <<"U+A64C", "U+A64D">>,
    <<"U+A64E", "U+A64F">>, <<"U+A650", "U+A651">>, <<"U+A652", "U+A653">>,
    <<"U+A654", "U+A655">>, <<"U+A656", "U+A657">>, <<"U+A658", "U+A659">>,
    <<"U+A65A", "U+A65B">>, <<"U+A65C", "U+A65D">>, <<"U+A65E", "U+A65F">>,
    <<"U+A660", "U+A661">>, <<"U+A662", "U+A663">>, <<"U+A664", "U+A665">>,
    <<"U+A666", "U+A667">>, <<"U+A668", "U+A669">>, <<"U+A66A", "U+A66B">>,
    <<"U+A66C", "U+A66D">>, <<"U+A680", "U+A681">>, <<"U+A682", "U+A683">>,
    <<"U+A684", "U+A685">>, <<"U+A686", "U+A687">>, <<"U+A688", "U+A689">>,
    <<"U+A68A", "U+A68B">>, <<"U+A68C", "U+A68D">>, <<"U+A68E", "U+A68F">>,
    <<"U+A690", "U+A691">>, <<"U+A692", "U+A693">>, <<"U+A694", "U+A695">>,
    <<"U+A696", "U+A697">>, <<"U+A698", "U+A699">>, <<"U+A69A", "U+A69B">>,
    <<"U+A722", "U+A723">>, <<"U+A724", "U+A725">>, <<"U+A726", "U+A727">>,
    <<"U+A728", "U+A729">>, <<"U+A72A", "U+A72B">>, <<"U+A72C", "U+A72D">>,
    <<"U+A72E", "U+A72F">>, <<"U+A732", "U+A733">>, <<"U+A734", "U+A735">>,
    <<"U+A736", "U+A737">>, <<"U+A738", "U+A739">>, <<"U+A73A", "U+A73B">>,
    <<"U+A73C", "U+A73D">>, <<"U+A73E", "U+A73F">>, <<"U+A740", "U+A741">>,
    <<"U+A742", "U+A743">>, <<"U+A744", "U+A745">>, <<"U+A746", "U+A747">>,
    <<"U+A748", "U+A749">>, <<"U+A74A", "U+A74B">>, <<"U+A74C", "U+A74D">>,
    <<"U+A74E", "U+A74F">>, <<"U+A750", "U+A751">>, <<"U+A752", "U+A753">>,
    <<"U+A754", "U+A755">>, <<"U+A756", "U+A757">>, <<"U+A758", "U+A759">>,
    <<"U+A75A", "U+A75B">>, <<"U+A75C", "U+A75D">>, <<"U+A75E", "U+A75F">>,
    <<"U+A760", "U+A761">>, <<"U+A762", "U+A763">>, <<"U+A764", "U+A765">>,
    <<"U+A766", "U+A767">>, <<"U+A768", "U+A769">>, <<"U+A76A", "U+A76B">>,
    <<"U+A76C", "U+A76D">>, <<"U+A76E", "U+A76F">>, <<"U+A779", "U+A77A">>,
    <<"U+A77B", "U+A77C">>, <<"U+A77D", "U+1D79">>, <<"U+A77E", "U+A77F">>,
    <<"U+A780", "U+A781">>, <<"U+A782", "U+A783">>, <<"U+A784", "U+A785">>,
    <<"U+A786", "U+A787">>, <<"U+A78B", "U+A78C">>, <<"U+A78D", "U+0265">>,
    <<"U+A790", "U+A791">>, <<"U+A792", "U+A793">>, <<"U+A796", "U+A797">>,
    <<"U+A798", "U+A799">>, <<"U+A79A", "U+A79B">>, <<"U+A79C", "U+A79D">>,
    <<"U+A79E", "U+A79F">>, <<"U+A7A0", "U+A7A1">>, <<"U+A7A2", "U+A7A3">>,
    <<"U+A7A4", "U+A7A5">>, <<"U+A7A6", "U+A7A7">>, <<"U+A7A8", "U+A7A9">>,
    <<"U+A7AA", "U+0266">>, <<"U+A7AB", "U+025C">>, <<"U+A7AC", "U+0261">>,
    <<"U+A7AD", "U+026C">>, <<"U+A7AE", "U+026A">>, <<"U+A7B0", "U+029E">>,
    <<"U+A7B1", "U+0287">>, <<"U+A7B2", "U+029D">>, <<"U+A7B3", "U+AB53">>,
    <<"U+A7B4", "U+A7B5">>, <<"U+A7B6", "U+A7B7">>, <<"U+A7B8", "U+A7B9">>,
    <<"U+A7BA", "U+A7BB">>, <<"U+A7BC", "U+A7BD">>, <<"U+A7BE", "U+A7BF">>,
    <<"U+A7C0", "U+A7C1">>, <<"U+A7C2", "U+A7C3">>, <<"U+A7C4", "U+A794">>,
    <<"U+A7C5", "U+0282">>, <<"U+A7C6", "U+1D8E">>, <<"U+A7C7", "U+A7C8">>,
    <<"U+A7C9", "U+A7CA">>, <<"U+A7D0", "U+A7D1">>, <<"U+A7D6", "U+A7D7">>,
    <<"U+A7D8", "U+A7D9">>, <<"U+A7F5", "U+A7F6">>, <<"U+FF21", "U+FF41">>,
    <<"U+FF22", "U+FF42">>, <<"U+FF23", "U+FF43">>, <<"U+FF24", "U+FF44">>,
    <<"U+FF25", "U+FF45">>, <<"U+FF26", "U+FF46">>, <<"U+FF27", "U+FF47">>,
    <<"U+FF28", "U+FF48">>, <<"U+FF29", "U+FF49">>, <<"U+FF2A", "U+FF4A">>,
    <<"U+FF2B", "U+FF4B">>, <<"U+FF2C", "U+FF4C">>, <<"U+FF2D", "U+FF4D">>,
    <<"U+FF2E", "U+FF4E">>, <<"U+FF2F", "U+FF4F">>, <<"U+FF30", "U+FF50">>,
    <<"U+FF31", "U+FF51">>, <<"U+FF32", "U+FF52">>, <<"U+FF33", "U+FF53">>,
    <<"U+FF34", "U+FF54">>, <<"U+FF35", "U+FF55">>, <<"U+FF36", "U+FF56">>,
    <<"U+FF37", "U+FF57">>, <<"U+FF38", "U+FF58">>, <<"U+FF39", "U+FF59">>,
    <<"U+FF3A", "U+FF5A">>, <<"U+10400", "U+10428">>, <<"U+10401", "U+10429">>,
    <<"U+10402", "U+1042A">>, <<"U+10403", "U+1042B">>, <<"U+10404", "U+1042C">>,
    <<"U+10405", "U+1042D">>, <<"U+10406", "U+1042E">>, <<"U+10407", "U+1042F">>,
    <<"U+10408", "U+10430">>, <<"U+10409", "U+10431">>, <<"U+1040A", "U+10432">>,
    <<"U+1040B", "U+10433">>, <<"U+1040C", "U+10434">>, <<"U+1040D", "U+10435">>,
    <<"U+1040E", "U+10436">>, <<"U+1040F", "U+10437">>, <<"U+10410", "U+10438">>,
    <<"U+10411", "U+10439">>, <<"U+10412", "U+1043A">>, <<"U+10413", "U+1043B">>,
    <<"U+10414", "U+1043C">>, <<"U+10415", "U+1043D">>, <<"U+10416", "U+1043E">>,
    <<"U+10417", "U+1043F">>, <<"U+10418", "U+10440">>, <<"U+10419", "U+10441">>,
    <<"U+1041A", "U+10442">>, <<"U+1041B", "U+10443">>, <<"U+1041C", "U+10444">>,
    <<"U+1041D", "U+10445">>, <<"U+1041E", "U+10446">>, <<"U+1041F", "U+10447">>,
    <<"U+10420", "U+10448">>, <<"U+10421", "U+10449">>, <<"U+10422", "U+1044A">>,
    <<"U+10423", "U+1044B">>, <<"U+10424", "U+1044C">>, <<"U+10425", "U+1044D">>,
    <<"U+10426", "U+1044E">>, <<"U+10427", "U+1044F">>, <<"U+104B0", "U+104D8">>,
    <<"U+104B1", "U+104D9">>, <<"U+104B2", "U+104DA">>, <<"U+104B3", "U+104DB">>,
    <<"U+104B4", "U+104DC">>, <<"U+104B5", "U+104DD">>, <<"U+104B6", "U+104DE">>,
    <<"U+104B7", "U+104DF">>, <<"U+104B8", "U+104E0">>, <<"U+104B9", "U+104E1">>,
    <<"U+104BA", "U+104E2">>, <<"U+104BB", "U+104E3">>, <<"U+104BC", "U+104E4">>,
    <<"U+104BD", "U+104E5">>, <<"U+104BE", "U+104E6">>, <<"U+104BF", "U+104E7">>,
    <<"U+104C0", "U+104E8">>, <<"U+104C1", "U+104E9">>, <<"U+104C2", "U+104EA">>,
    <<"U+104C3", "U+104EB">>, <<"U+104C4", "U+104EC">>, <<"U+104C5", "U+104ED">>,
    <<"U+104C6", "U+104EE">>, <<"U+104C7", "U+104EF">>, <<"U+104C8", "U+104F0">>,
    <<"U+104C9", "U+104F1">>, <<"U+104CA", "U+104F2">>, <<"U+104CB", "U+104F3">>,
    <<"U+104CC", "U+104F4">>, <<"U+104CD", "U+104F5">>, <<"U+104CE", "U+104F6">>,
    <<"U+104CF", "U+104F7">>, <<"U+104D0", "U+104F8">>, <<"U+104D1", "U+104F9">>,
    <<"U+104D2", "U+104FA">>, <<"U+104D3", "U+104FB">>, <<"U+10570", "U+10597">>,
    <<"U+10571", "U+10598">>, <<"U+10572", "U+10599">>, <<"U+10573", "U+1059A">>,
    <<"U+10574", "U+1059B">>, <<"U+10575", "U+1059C">>, <<"U+10576", "U+1059D">>,
    <<"U+10577", "U+1059E">>, <<"U+10578", "U+1059F">>, <<"U+10579", "U+105A0">>,
    <<"U+1057A", "U+105A1">>, <<"U+1057C", "U+105A3">>, <<"U+1057D", "U+105A4">>,
    <<"U+1057E", "U+105A5">>, <<"U+1057F", "U+105A6">>, <<"U+10580", "U+105A7">>,
    <<"U+10581", "U+105A8">>, <<"U+10582", "U+105A9">>, <<"U+10583", "U+105AA">>,
    <<"U+10584", "U+105AB">>, <<"U+10585", "U+105AC">>, <<"U+10586", "U+105AD">>,
    <<"U+10587", "U+105AE">>, <<"U+10588", "U+105AF">>, <<"U+10589", "U+105B0">>,
    <<"U+1058A", "U+105B1">>, <<"U+1058C", "U+105B3">>, <<"U+1058D", "U+105B4">>,
    <<"U+1058E", "U+105B5">>, <<"U+1058F", "U+105B6">>, <<"U+10590", "U+105B7">>,
    <<"U+10591", "U+105B8">>, <<"U+10592", "U+105B9">>, <<"U+10594", "U+105BB">>,
    <<"U+10595", "U+105BC">>, <<"U+10C80", "U+10CC0">>, <<"U+10C81", "U+10CC1">>,
    <<"U+10C82", "U+10CC2">>, <<"U+10C83", "U+10CC3">>, <<"U+10C84", "U+10CC4">>,
    <<"U+10C85", "U+10CC5">>, <<"U+10C86", "U+10CC6">>, <<"U+10C87", "U+10CC7">>,
    <<"U+10C88", "U+10CC8">>, <<"U+10C89", "U+10CC9">>, <<"U+10C8A", "U+10CCA">>,
    <<"U+10C8B", "U+10CCB">>, <<"U+10C8C", "U+10CCC">>, <<"U+10C8D", "U+10CCD">>,
    <<"U+10C8E", "U+10CCE">>, <<"U+10C8F", "U+10CCF">>, <<"U+10C90", "U+10CD0">>,
    <<"U+10C91", "U+10CD1">>, <<"U+10C92", "U+10CD2">>, <<"U+10C93", "U+10CD3">>,
    <<"U+10C94", "U+10CD4">>, <<"U+10C95", "U+10CD5">>, <<"U+10C96", "U+10CD6">>,
    <<"U+10C97", "U+10CD7">>, <<"U+10C98", "U+10CD8">>, <<"U+10C99", "U+10CD9">>,
    <<"U+10C9A", "U+10CDA">>, <<"U+10C9B", "U+10CDB">>, <<"U+10C9C", "U+10CDC">>,
    <<"U+10C9D", "U+10CDD">>, <<"U+10C9E", "U+10CDE">>, <<"U+10C9F", "U+10CDF">>,
    <<"U+10CA0", "U+10CE0">>, <<"U+10CA1", "U+10CE1">>, <<"U+10CA2", "U+10CE2">>,
    <<"U+10CA3", "U+10CE3">>, <<"U+10CA4", "U+10CE4">>, <<"U+10CA5", "U+10CE5">>,
    <<"U+10CA6", "U+10CE6">>, <<"U+10CA7", "U+10CE7">>, <<"U+10CA8", "U+10CE8">>,
    <<"U+10CA9", "U+10CE9">>, <<"U+10CAA", "U+10CEA">>, <<"U+10CAB", "U+10CEB">>,
    <<"U+10CAC", "U+10CEC">>, <<"U+10CAD", "U+10CED">>, <<"U+10CAE", "U+10CEE">>,
    <<"U+10CAF", "U+10CEF">>, <<"U+10CB0", "U+10CF0">>, <<"U+10CB1", "U+10CF1">>,
    <<"U+10CB2", "U+10CF2">>, <<"U+118A0", "U+118C0">>, <<"U+118A1", "U+118C1">>,
    <<"U+118A2", "U+118C2">>, <<"U+118A3", "U+118C3">>, <<"U+118A4", "U+118C4">>,
    <<"U+118A5", "U+118C5">>, <<"U+118A6", "U+118C6">>, <<"U+118A7", "U+118C7">>,
    <<"U+118A8", "U+118C8">>, <<"U+118A9", "U+118C9">>, <<"U+118AA", "U+118CA">>,
    <<"U+118AB", "U+118CB">>, <<"U+118AC", "U+118CC">>, <<"U+118AD", "U+118CD">>,
    <<"U+118AE", "U+118CE">>, <<"U+118AF", "U+118CF">>, <<"U+118B0", "U+118D0">>,
    <<"U+118B1", "U+118D1">>, <<"U+118B2", "U+118D2">>, <<"U+118B3", "U+118D3">>,
    <<"U+118B4", "U+118D4">>, <<"U+118B5", "U+118D5">>, <<"U+118B6", "U+118D6">>,
    <<"U+118B7", "U+118D7">>, <<"U+118B8", "U+118D8">>, <<"U+118B9", "U+118D9">>,
    <<"U+118BA", "U+118DA">>, <<"U+118BB", "U+118DB">>, <<"U+118BC", "U+118DC">>,
    <<"U+118BD", "U+118DD">>, <<"U+118BE", "U+118DE">>, <<"U+118BF", "U+118DF">>,
    <<"U+16E40", "U+16E60">>, <<"U+16E41", "U+16E61">>, <<"U+16E42", "U+16E62">>,
    <<"U+16E43", "U+16E63">>, <<"U+16E44", "U+16E64">>, <<"U+16E45", "U+16E65">>,
    <<"U+16E46", "U+16E66">>, <<"U+16E47", "U+16E67">>, <<"U+16E48", "U+16E68">>,
    <<"U+16E49", "U+16E69">>, <<"U+16E4A", "U+16E6A">>, <<"U+16E4B", "U+16E6B">>,
    <<"U+16E4C", "U+16E6C">>, <<"U+16E4D", "U+16E6D">>, <<"U+16E4E", "U+16E6E">>,
    <<"U+16E4F", "U+16E6F">>, <<"U+16E50", "U+16E70">>, <<"U+16E51", "U+16E71">>,
    <<"U+16E52", "U+16E72">>, <<"U+16E53", "U+16E73">>, <<"U+16E54", "U+16E74">>,
    <<"U+16E55", "U+16E75">>, <<"U+16E56", "U+16E76">>, <<"U+16E57", "U+16E77">>,
    <<"U+16E58", "U+16E78">>, <<"U+16E59", "U+16E79">>, <<"U+16E5A", "U+16E7A">>,
    <<"U+16E5B", "U+16E7B">>, <<"U+16E5C", "U+16E7C">>, <<"U+16E5D", "U+16E7D">>,
    <<"U+16E5E", "U+16E7E">>, <<"U+16E5F", "U+16E7F">>, <<"U+1E900", "U+1E922">>,
    <<"U+1E901", "U+1E923">>, <<"U+1E902", "U+1E924">>, <<"U+1E903", "U+1E925">>,
    <<"U+1E904", "U+1E926">>, <<"U+1E905", "U+1E927">>, <<"U+1E906", "U+1E928">>,
    <<"U+1E907", "U+1E929">>, <<"U+1E908", "U+1E92A">>, <<"U+1E909", "U+1E92B">>,
    <<"U+1E90A", "U+1E92C">>, <<"U+1E90B", "U+1E92D">>, <<"U+1E90C", "U+1E92E">>,
    <<"U+1E90D", "U+1E92F">>, <<"U+1E90E", "U+1E930">>, <<"U+1E90F", "U+1E931">>,
    <<"U+1E910", "U+1E932">>, <<"U+1E911", "U+1E933">>, <<"U+1E912", "U+1E934">>,
    <<"U+1E913", "U+1E935">>, <<"U+1E914", "U+1E936">>, <<"U+1E915", "U+1E937">>,
    <<"U+1E916", "U+1E938">>, <<"U+1E917", "U+1E939">>, <<"U+1E918", "U+1E93A">>,
    <<"U+1E919", "U+1E93B">>, <<"U+1E91A", "U+1E93C">>, <<"U+1E91B", "U+1E93D">>,
    <<"U+1E91C", "U+1E93E">>, <<"U+1E91D", "U+1E93F">>, <<"U+1E91E", "U+1E940">>,
    <<"U+1E91F", "U+1E941">>, <<"U+1E920", "U+1E942">>, <<"U+1E921", "U+1E943">> }

UpperCased == {p[1] : p \in SimpleLowerCase}

LowerCased == [c \in UpperCased |-> (CHOOSE p \in SimpleLowerCase : p[1] = c)[2]]

\* unicode.ToLower
ToLowerChar(c) ==
    IF \E i \in DOMAIN Upper : Upper[i] = c
    THEN Lower[CHOOSE i \in DOMAIN Upper : Upper[i] = c]
    ELSE IF c \in UpperCased THEN LowerCased[c]
    ELSE c

\* strings.ToLower
ToLower(str) == [i \in DOMAIN str |-> ToLowerChar(str[i])]

\* unicode.IsSpace, as strings.TrimSpace uses it: tab, line feed, vertical
\* tab, form feed, carriage return, space, U+0085 (NEL), U+00A0 (NBSP) and
\* the code points above U+00FF with the property White_Space
IsSpace(c) ==
    c \in {"\t", "\n", "", "\f", "\r", " ", "U+0085", "U+00A0",
           "U+1680", "U+2000", "U+2001", "U+2002", "U+2003", "U+2004",
           "U+2005", "U+2006", "U+2007", "U+2008", "U+2009", "U+200A",
           "U+2028", "U+2029", "U+202F", "U+205F", "U+3000"}

RECURSIVE TrimLeft(_)
TrimLeft(str) ==
    IF str # <<>> /\ IsSpace(Head(str)) THEN TrimLeft(Tail(str)) ELSE str

RECURSIVE TrimRight(_)
TrimRight(str) ==
    IF str # <<>> /\ IsSpace(str[Len(str)])
    THEN TrimRight(SubSeq(str, 1, Len(str) - 1))
    ELSE str

\* strings.TrimSpace
TrimSpace(str) == TrimRight(TrimLeft(str))

\* strings.Split(str, sep) for a one-character separator: always at least
\* one part, Split("", sep) = [""]
RECURSIVE SplitFrom(_, _, _)
SplitFrom(str, sep, cur) ==
    IF str = <<>> THEN <<cur>>
    ELSE IF Head(str) = sep
         THEN <<cur>> \o SplitFrom(Tail(str), sep, <<>>)
         ELSE SplitFrom(Tail(str), sep, Append(cur, Head(str)))

Split(str, sep) == SplitFrom(str, sep, <<>>)

RECURSIVE Flatten(_)
Flatten(seqs) ==
    IF seqs = <<>> THEN <<>> ELSE Head(seqs) \o Flatten(Tail(seqs))

Range(seq) == {seq[i] : i \in DOMAIN seq}


(***************************************************************************)
(* The discovery result the run works on: what ServerPreferredResources    *)
(* returns (a list of APIResourceList: GroupVersion + APIResources).       *)
(*   v1   : pods  (Kind Pod, short "po"), pz (a second resource of Kind    *)
(*          Pod), evs (Kind Ev, short "ev")                                *)
(*   e/v1 : evs   (Kind Ev, short "ev")                                    *)
(*   b/v1 : jobs  (Kind Job, singular name "job")                          *)
(***************************************************************************)
ServerPreferredResources == <<
    [GroupVersion |-> <<"v","1">>,
     APIResources |-> <<
        [Name |-> <<"p","o","d","s">>, Kind |-> <<"P","o","d">>, ShortNames |-> <<<<"p","o">>>>, SingularName |-> <<>>],
        [Name |-> <<"p","z">>, Kind |-> <<"P","o","d">>, ShortNames |-> <<>>, SingularName |-> <<>>],
        [Name |-> <<"e","v","s">>, Kind |-> <<"E","v">>, ShortNames |-> <<<<"e","v">>>>, SingularName |-> <<>>] >>],
    [GroupVersion |-> <<"e","/","v","1">>,
     APIResources |-> <<
        [Name |-> <<"e","v","s">>, Kind |-> <<"E","v">>, ShortNames |-> <<<<"e","v">>>>, SingularName |-> <<>>] >>],
    [GroupVersion |-> <<"b","/","v","1">>,
     APIResources |-> <<
        [Name |-> <<"j","o","b","s">>, Kind |-> <<"J","o","b">>, ShortNames |-> <<>>, SingularName |-> <<"j","o","b">>] >> ] >>

\* a string of the program, kept as a tuple of characters, as one string
RECURSIVE Str(_)
Str(chars) == IF chars = <<>> THEN "" ELSE Head(chars) \o Str(Tail(chars))

\* a discovery result whose second list has a group/version that
\* schema.ParseGroupVersion rejects
BrokenPreferredResources == <<
    ServerPreferredResources[1],
    [GroupVersion |-> <<"a","/","b","/","c">>,
     APIResources |-> <<
        [Name |-> <<"j","o","b","s">>, Kind |-> <<"J","o","b">>, ShortNames |-> <<>>, SingularName |-> <<"j","o","b">>] >> ] >>

\* what cc.discoveryClient.ServerPreferredResources() may hand to
\* getApiResources
Discoveries == {ServerPreferredResources, BrokenPreferredResources}

\* schema.ParseGroupVersion: "" and "/" -> ("", ""); "v1" -> ("", "v1");
\* "g/v1" -> ("g", "v1"); more than one "/" is an error
ParseGroupVersion(gv) ==
    LET parts == Split(gv, "/")
    IN  IF gv = <<>> \/ gv = <<"/">>
        THEN [err |-> "", Group |-> <<>>, Version |-> <<>>]
        ELSE IF Len(parts) = 1
        THEN [err |-> "", Group |-> <<>>, Version |-> gv]
        ELSE IF Len(parts) = 2
        THEN [err |-> "", Group |-> parts[1], Version |-> parts[2]]
        ELSE [err |-> "unexpected GroupVersion string: " \o Str(gv),
              Group |-> <<>>, Version |-> <<>>]

\* ID as it would be if it used the version without the group
IDKindVersion(agv) == agv.resource.Kind \o <<"+">> \o agv.resource.Version

\* APIResourceGV.ID
ID(agv) == agv.resource.Kind \o <<"+">> \o agv.groupVersion

\* the alias keys one APIResource is indexed under, in the order appended
AliasKeys(r, gv) ==
    <<r.Name, ToLower(r.Kind), r.Name \o <<".">> \o gv.Group>>
    \o r.ShortNames
    \o (IF r.SingularName # <<>> THEN <<r.SingularName>> ELSE <<>>)

\* the APIResourceGV values built by getApiResources from the discovery
\* result `resources`, in discovery order, each with its alias keys
DescriptorsOf(resources) ==
    Flatten([g \in DOMAIN resources |->
        LET rl == resources[g]
            gv == ParseGroupVersion(rl.GroupVersion)
        IN  [k \in DOMAIN rl.APIResources |->
                LET r == rl.APIResources[k]
                IN  [agv |-> [resource |-> [Name |-> r.Name, Kind |-> r.Kind,
                                            Group |-> gv.Group,
                                            Version |-> gv.Version],
                              groupVersion |-> rl.GroupVersion],
                     keys |-> AliasKeys(r, gv)]]])

\* one copy of agv for every time `key` is among its alias keys
Appended(d, key) ==
    LET hits == SelectSeq(d.keys, LAMBDA k : k = key)
    IN  [j \in DOMAIN hits |-> d.agv]

\* the descriptors of the discovery result that parses
Descriptors == DescriptorsOf(ServerPreferredResources)

\* CounterController.getApiResources: (rm, err), rm the map alias key ->
\* APIResourceGV list, err the error of the first group/version, in
\* discovery order, that schema.ParseGroupVersion rejects (rm is nil then)
getApiResources(resources) ==
    LET bad == {g \in DOMAIN resources :
                    ParseGroupVersion(resources[g].GroupVersion).err # ""}
        ds  == DescriptorsOf(resources)
    IN  IF bad # {}
        THEN LET g == CHOOSE x \in bad : \A y \in bad : x <= y
             IN  [rm |-> <<>>,
                  err |-> ParseGroupVersion(resources[g].GroupVersion).err]
        ELSE [rm |-> [key \in UNION {Range(ds[i].keys) : i \in DOMAIN ds} |->
                         Flatten([i \in DOMAIN ds |-> Appended(ds[i], key)])],
              err |-> ""]

\* what getApiResources returns for each discovery result tried
ApiResources == [resources \in Discoveries |-> getApiResources(resources)]

\* the alias map of the discovery result that parses
AliasMap == ApiResources[ServerPreferredResources].rm

\* CounterController.sanitizeKinds
sanitizeKinds(str) ==
    LET parts == Split(str, ",")
        trimmed == [i \in DOMAIN parts |-> TrimSpace(parts[i])]
    IN  SelectSeq(trimmed, LAMBDA part : part # <<>>)

\* the resolution loop as it would be if an unknown token aborted it
ResolvedStrict(kinds, apiResources) ==
    IF \E i \in DOMAIN kinds : kinds[i] \notin DOMAIN apiResources
    THEN <<>>
    ELSE Flatten([i \in DOMAIN kinds |-> apiResources[kinds[i]]])

\* the APIResourceGV values visited by the double loop of list, in order
Resolved(kinds, apiResources) ==
    Flatten([i \in DOMAIN kinds |->
        IF kinds[i] \in DOMAIN apiResources
        THEN apiResources[kinds[i]] ELSE <<>>])

GVR(ar) == [Group |-> ar.resource.Group, Version |-> ar.resource.Version,
            Resource |-> ar.resource.Name]

\* the informers map of list: id -> the informer (named by its
\* GroupVersionResource) stored last under that id
Informers(resolved) ==
    [id \in {ID(resolved[k]) : k \in DOMAIN resolved} |->
        LET last == CHOOSE k \in DOMAIN resolved :
                        /\ ID(resolved[k]) = id
                        /\ \A j \in DOMAIN resolved : ID(resolved[j]) = id => j <= k
        IN  GVR(resolved[last])]

\* AddID as it would be if it skipped an id already present
AddIDUnique(idsq, id) ==
    IF \E k \in DOMAIN idsq : idsq[k] = id THEN idsq ELSE Append(idsq, id)

\* IDMap.AddID
AddID(idsq, id) == Append(idsq, id)

RECURSIVE AddIDs(_, _)
AddIDs(idsq, resolved) ==
    IF resolved = <<>> THEN idsq
    ELSE AddIDs(AddID(idsq, ID(Head(resolved))), Tail(resolved))

\* IDMap.KindGroupVersion
KindGroupVersion(id) ==
    LET parts == Split(id, "+")
    IN  [kind |-> parts[1], groupVersion |-> parts[2]]

(***************************************************************************)
(* IDMap: m is id -> (namespace -> count), ids the resolution order.  The  *)
(* empty map is the function with empty domain, <<>>.                      *)
(***************************************************************************)
\* IDMap.Add
IDMapAdd(mm, id, namespace) ==
    LET m1  == IF id \in DOMAIN mm THEN mm ELSE (id :> <<>>) @@ mm
        cur == IF namespace \in DOMAIN m1[id] THEN m1[id][namespace] ELSE 0
    IN  [m1 EXCEPT ![id] = (namespace :> cur + 1) @@ @]

\* IDMap.Del as it would be if it removed an entry whose count reaches zero
IDMapDelDeleting(mm, id, namespace) ==
    IF id \notin DOMAIN mm THEN mm
    ELSE LET cur == IF namespace \in DOMAIN mm[id] THEN mm[id][namespace] ELSE 0
         IN  IF cur - 1 = 0
             THEN [mm EXCEPT ![id] = [n \in DOMAIN @ \ {namespace} |-> @[n]]]
             ELSE [mm EXCEPT ![id] = (namespace :> cur - 1) @@ @]

\* IDMap.Del as it would be if, like Add, it created the id's map instead
\* of returning
IDMapDelUnguarded(mm, id, namespace) ==
    LET m1  == IF id \in DOMAIN mm THEN mm ELSE (id :> <<>>) @@ mm
        cur == IF namespace \in DOMAIN m1[id] THEN m1[id][namespace] ELSE 0
    IN  [m1 EXCEPT ![id] = (namespace :> cur - 1) @@ @]

\* IDMap.Del as it would be if it created the id's map before returning
IDMapDelEnsuring(mm, id, namespace) ==
    IF id \notin DOMAIN mm THEN (id :> <<>>) @@ mm
    ELSE LET cur == IF namespace \in DOMAIN mm[id] THEN mm[id][namespace] ELSE 0
         IN  [mm EXCEPT ![id] = (namespace :> cur - 1) @@ @]

\* IDMap.Del
IDMapDel(mm, id, namespace) ==
    IF id \notin DOMAIN mm THEN mm
    ELSE LET cur == IF namespace \in DOMAIN mm[id] THEN mm[id][namespace] ELSE 0
         IN  [mm EXCEPT ![id] = (namespace :> cur - 1) @@ @]

\* the orders in which a range over a Go map can visit the keys in S
Perms(S) ==
    {p \in [1..Cardinality(S) -> S] : \A x \in S : \E i \in DOMAIN p : p[i] = x}

\* the switch as it would be without strings.ToLower
IsDescCaseSensitive(order) == order \in {<<"d","e","s","c">>, <<"d">>}

\* the switch on strings.ToLower(order)
IsDesc(order) == ToLower(order) \in {<<"d","e","s","c">>, <<"d">>}

\* the less functions handed to sort.Slice
Less(a, b, desc) == IF desc THEN a.Count > b.Count ELSE a.Count < b.Count

\* sort.Slice on fewer than 12 elements is an insertion sort: each element
\* moves left while it is less than its left neighbour
RECURSIVE InsertLeft(_, _, _)
InsertLeft(sorted, x, desc) ==
    IF sorted # <<>> /\ Less(x, sorted[Len(sorted)], desc)
    THEN Append(InsertLeft(SubSeq(sorted, 1, Len(sorted) - 1), x, desc),
                sorted[Len(sorted)])
    ELSE Append(sorted, x)

RECURSIVE SortSliceFrom(_, _, _)
SortSliceFrom(sorted, rest, desc) ==
    IF rest = <<>> THEN sorted
    ELSE SortSliceFrom(InsertLeft(sorted, Head(rest), desc), Tail(rest), desc)

SortSlice(rs, desc) == SortSliceFrom(<<>>, rs, desc)

\* the first loop as it would be if it skipped the counts that are not
\* positive
PerNamespacePositive(mm, id, visit) ==
    SelectSeq([i \in DOMAIN visit |->
                  [Namespace    |-> visit[i],
                   Kind         |-> KindGroupVersion(id).kind,
                   GroupVersion |-> KindGroupVersion(id).groupVersion,
                   Count        |-> mm[id][visit[i]]]],
              LAMBDA r : r.Count > 0)

\* first loop of GetRecords: one Record per namespace of id, visited in
\* the order visit
PerNamespace(mm, id, visit) ==
    [i \in DOMAIN visit |->
        [Namespace    |-> visit[i],
         Kind         |-> KindGroupVersion(id).kind,
         GroupVersion |-> KindGroupVersion(id).groupVersion,
         Count        |-> mm[id][visit[i]]]]

RECURSIVE SumCounts(_)
SumCounts(rs) == IF rs = <<>> THEN 0 ELSE Head(rs).Count + SumCounts(Tail(rs))

\* the allNamespace loop as it would be with r.Count = c.Count
CollapseLast(id, rs) ==
    <<[Namespace    |-> "",
       Kind         |-> KindGroupVersion(id).kind,
       GroupVersion |-> IF rs = <<>> THEN <<>> ELSE rs[Len(rs)].GroupVersion,
       Count        |-> IF rs = <<>> THEN 0 ELSE rs[Len(rs)].Count]>>

\* the allNamespace loop of GetRecords: one Record per id
Collapse(id, rs) ==
    <<[Namespace    |-> "",
       Kind         |-> KindGroupVersion(id).kind,
       GroupVersion |-> IF rs = <<>> THEN <<>> ELSE rs[Len(rs)].GroupVersion,
       Count        |-> SumCounts(rs)]>>

\* records[id] after the optional collapse and the sort
Group(mm, id, visit, order, allNamespace) ==
    LET rs == PerNamespace(mm, id, visit)
    IN  SortSlice(IF allNamespace THEN Collapse(id, rs) ELSE rs, IsDesc(order))

\* the last loop as it would be if it prepended instead of appending
RECURSIVE ConcatReversed(_, _)
ConcatReversed(idsq, groups) ==
    IF idsq = <<>> THEN <<>>
    ELSE ConcatReversed(Tail(idsq), groups)
         \o (IF Head(idsq) \in DOMAIN groups THEN groups[Head(idsq)] ELSE <<>>)

\* last loop of GetRecords: records[id] for each id of ids, in order; an
\* id without an entry appends nothing
RECURSIVE Concat(_, _)
Concat(idsq, groups) ==
    IF idsq = <<>> THEN <<>>
    ELSE (IF Head(idsq) \in DOMAIN groups THEN groups[Head(idsq)] ELSE <<>>)
         \o Concat(Tail(idsq), groups)

\* IDMap.GetRecords: every result the call can return, one for each choice
\* of map iteration orders
GetRecords(mm, idsq, order, allNamespace) ==
    LET orders == UNION {Perms(DOMAIN mm[id]) : id \in DOMAIN mm}
        visits == {v \in [DOMAIN mm -> orders] :
                      \A id \in DOMAIN mm : v[id] \in Perms(DOMAIN mm[id])}
    IN  {Concat(idsq, [id \in DOMAIN mm |->
                          Group(mm, id, v[id], order, allNamespace)]) :
         v \in visits}

(***************************************************************************)
(* State.                                                                  *)
(*   s            the <kinds> argument handed to Render                    *)
(*   discovery    what the discovery client answers to                     *)
(*                ServerPreferredResources()                               *)
(*   pc           where the main goroutine is: "start", "syncing" (the     *)
(*                WaitForNamedCacheSync loop), "listed" (list returned,    *)
(*                GetRecords not yet called), "snapshot" (GetRecords has   *)
(*                returned), "rendered", "exit1"; "idmap"                  *)
(*                in the IDMap-only specification                          *)
(*   err          the error list returned ("" for none)                    *)
(*   m, ids       the IDMap                                                *)
(*   informers    list's informers map: id -> GroupVersionResource         *)
(*   inf          per informer: the reflector / DeltaFIFO / listener state *)
(*   barrier      the keys of the informers map that the barrier loop has  *)
(*                still to wait for, in the order its range visits them    *)
(*   waited       the informers whose WaitForNamedCacheSync has returned   *)
(*   cancelled    cc.cancel() was called (cc.ctx.Done() is closed)         *)
(*   nWatch       incremental events (watch, relist) produced so far       *)
(*   records, order, allNamespace   the last GetRecords call and result    *)
(*   calls        history: how often Add / Del were called per (id, ns)    *)
(*   lock         idm.lock: the goroutine that holds it ("" when free)     *)
(*   th           per goroutine inside an IDMap method: its position, its  *)
(*                arguments and its local values                           *)
(*   log          history: the IDMap calls in the order they took the lock *)
(*   stdout       what Render has written to os.Stdout: a message or the   *)
(*                rendered Records                                         *)
(*   stderr       the messages Render has written to os.Stderr             *)
(* Add, Del and GetRecords are single steps except in the specification of *)
(* the lock, which is the only one to change lock, th and log.             *)
(***************************************************************************)
VARIABLES s, discovery, barrier, pc, err, m, ids, informers, inf, waited, cancelled, nWatch,
          records, order, allNamespace, calls, lock, th, log, stdout, stderr

vars == <<s, discovery, barrier, pc, err, m, ids, informers, inf, waited, cancelled, nWatch,
          records, order, allNamespace, calls, lock, th, log, stdout, stderr>>

locking == <<lock, th, log>>

output == <<stdout, stderr>>

\* Render's messages
FailedToList == "[Oh...] Failed to list resources, error: "

NoResources == "[Oh...] No Resources found!"

\* the goroutines that call the IDMap: two handler goroutines and Render
Workers == {"w1", "w2"}

Threads == Workers \cup {"r"}

Idle == [pc |-> "idle", op |-> "", id |-> <<>>, ns |-> "", tmp |-> 0,
         seen |-> <<>>]

\* the <kinds> arguments tried
Inputs == {
    <<>>,
    <<" ",","," "," ">>,
    <<"\f",",","","U+00A0","U+3000">>,
    <<"x">>,
    <<"p","o">>,
    <<" ","p","o","U+2028",",","x">>,
    <<"p","o",",","p","o">>,
    <<"p","o","d">>,
    <<"e","v","s">>,
    <<"j","o","b">> }

\* the -O arguments tried
Orders == { <<"a","s","c">>, <<"d","e","s","c">>, <<"D">> }

\* the (order, allNamespace) arguments of Render tried in whole runs
RenderArgs == { <<<<"a","s","c">>, FALSE>>, <<<<"d","e","s","c">>, TRUE>> }

AllIDs == {ID(Descriptors[i].agv) : i \in DOMAIN Descriptors}

Pairs == AllIDs \X Namespaces

NoCalls == [add |-> [p \in Pairs |-> 0],
            del |-> [p \in Pairs |-> 0]]

RecordAdd(c, id, ns) == [c EXCEPT !.add[<<id, ns>>] = @ + 1]

RecordDel(c, id, ns) == [c EXCEPT !.del[<<id, ns>>] = @ + 1]

(***************************************************************************)
(* The informer behind one entry of the informers map (client-go v0.24.3,  *)
(* src/go.mod): the reflector lists the resource and replaces the          *)
(* DeltaFIFO's content with the listed objects, then watches; the          *)
(* controller pops the DeltaFIFO and hands each delta to the               *)
(* processorListener, which queues it (pending) for its own goroutine to   *)
(* call the registered AddFunc / DeleteFunc.                               *)
(***************************************************************************)
NewInformer == [listed |-> FALSE, failed |-> FALSE, initial |-> <<>>,
                fifo |-> <<>>, initialPopulationCount |-> 0, pending |-> <<>>,
                store |-> [n \in Namespaces |-> 0], stopped |-> FALSE]

\* the initial lists tried: up to MaxObjs objects, each in some namespace,
\* those of n1 listed before those of n2
Lists ==
    {l \in UNION {[1..n -> Namespaces] : n \in 0..MaxObjs} :
        \A i, j \in DOMAIN l : i < j => ~(l[i] = "n2" /\ l[j] = "n1")}

RECURSIVE SumOver(_, _)
SumOver(f, S) ==
    IF S = {} THEN 0
    ELSE LET x == CHOOSE y \in S : TRUE IN f[x] + SumOver(f, S \ {x})

\* objects listed so far, over all informers
Listed == SumOver([j \in DOMAIN inf |-> Len(inf[j].initial)], DOMAIN inf)

CountIn(objs, ns) == Len(SelectSeq(objs, LAMBDA n : n = ns))

\* informer.HasSynced: the DeltaFIFO was populated by the first list and
\* every item of that first list has been popped
HasSynced(i) == inf[i].listed /\ inf[i].initialPopulationCount = 0

\* the goroutines of list are alive: between `go informer.Run` and the
\* end of the process
Running == pc \in {"syncing", "listed", "snapshot"}

Init ==
    /\ s \in Inputs
    /\ discovery \in Discoveries
    /\ barrier = <<>>
    /\ pc = "start"
    /\ err = ""
    /\ m = <<>>
    /\ ids = <<>>
    /\ informers = <<>>
    /\ inf = <<>>
    /\ waited = {}
    /\ cancelled = FALSE
    /\ nWatch = 0
    /\ records = <<>>
    /\ order = <<>>
    /\ allNamespace = FALSE
    /\ calls = NoCalls
    /\ lock = ""
    /\ th = [t \in Threads |-> Idle]
    /\ log = <<>>
    /\ stdout = <<>>
    /\ stderr = <<>>

\* CounterController.list up to and including the `go informer.Run` loop;
\* when list returns an error (no token, the error of getApiResources, no
\* informer), Render writes it to os.Stderr and exits 1
List ==
    /\ pc = "start"
    /\ LET kinds        == sanitizeKinds(s)
           apiResources == ApiResources[discovery]
           resolved     == Resolved(kinds, apiResources.rm)
           infs         == Informers(resolved)
       IN  IF Len(kinds) = 0
           THEN /\ pc' = "exit1"
                /\ err' = "invalid input kind name: '" \o Str(s) \o "'"
                /\ stderr' = <<FailedToList \o err'>>
                /\ UNCHANGED <<ids, informers, inf, barrier>>
           ELSE IF apiResources.err # ""
           THEN /\ pc' = "exit1"
                /\ err' = apiResources.err
                /\ stderr' = <<FailedToList \o err'>>
                /\ UNCHANGED <<ids, informers, inf, barrier>>
           ELSE IF DOMAIN infs = {}
           THEN /\ pc' = "exit1"
                /\ err' = "no available informers found"
                /\ stderr' = <<FailedToList \o err'>>
                /\ UNCHANGED <<ids, informers, inf, barrier>>
           ELSE /\ pc' = "syncing"
                /\ err' = ""
                /\ ids' = AddIDs(<<>>, resolved)
                /\ informers' = infs
                /\ inf' = [id \in DOMAIN infs |-> NewInformer]
                /\ barrier' \in Perms(DOMAIN infs)
                /\ stderr' = stderr
    /\ stdout' = stdout
    /\ UNCHANGED locking
    /\ UNCHANGED discovery
    /\ UNCHANGED <<s, m, waited, cancelled, nWatch, records, order,
                   allNamespace, calls>>

\* the handler of SetWatchErrorHandler as it would be if it gave up the
\* run by cancelling the context
WatchErrorCancels(i) ==
    /\ Running /\ ~inf[i].stopped /\ ~inf[i].listed /\ ~inf[i].failed
    /\ inf' = [inf EXCEPT ![i] = [@ EXCEPT !.failed = TRUE]]
    /\ cancelled' = TRUE
    /\ UNCHANGED locking
    /\ UNCHANGED output
    /\ UNCHANGED <<discovery, barrier>>
    /\ UNCHANGED <<s, pc, err, m, ids, informers, waited, nWatch,
                   records, order, allNamespace, calls>>

\* the reflector's first ListAndWatch of informer i returns an error before
\* it has listed: the reflector calls the handler set by
\* SetWatchErrorHandler, which is empty, and will try again
WatchError(i) ==
    /\ Running /\ ~inf[i].stopped /\ ~inf[i].listed /\ ~inf[i].failed
    /\ inf' = [inf EXCEPT ![i] = [@ EXCEPT !.failed = TRUE]]
    /\ UNCHANGED locking
    /\ UNCHANGED output
    /\ UNCHANGED <<discovery, barrier>>
    /\ UNCHANGED <<s, pc, err, m, ids, informers, waited, cancelled, nWatch,
                   records, order, allNamespace, calls>>

\* the reflector's first list of informer i returns objs (at the first
\* attempt, or at a later one after errors)
InformerList(i, objs) ==
    /\ Running /\ ~inf[i].stopped /\ ~inf[i].listed
    /\ Listed + Len(objs) <= MaxObjs
    /\ inf' = [inf EXCEPT ![i] =
          [@ EXCEPT !.listed = TRUE,
                    !.failed = FALSE,
                    !.initial = objs,
                    !.fifo = [k \in DOMAIN objs |->
                                 [type |-> "add", namespace |-> objs[k],
                                  obj |-> "Unstructured"]],
                    !.initialPopulationCount = Len(objs),
                    !.store = [n \in Namespaces |-> CountIn(objs, n)]]]
    /\ UNCHANGED locking
    /\ UNCHANGED output
    /\ UNCHANGED <<discovery, barrier>>
    /\ UNCHANGED <<s, pc, err, m, ids, informers, waited, cancelled, nWatch,
                   records, order, allNamespace, calls>>

\* after the list, the watch of informer i reports a created object
InformerWatchAdd(i, ns) ==
    /\ Running /\ ~inf[i].stopped /\ inf[i].listed
    /\ nWatch < MaxWatch
    /\ nWatch' = nWatch + 1
    /\ inf' = [inf EXCEPT ![i] =
          [@ EXCEPT !.fifo = Append(@, [type |-> "add", namespace |-> ns,
                                        obj |-> "Unstructured"]),
                    !.store = [@ EXCEPT ![ns] = @ + 1]]]
    /\ UNCHANGED locking
    /\ UNCHANGED output
    /\ UNCHANGED <<discovery, barrier>>
    /\ UNCHANGED <<s, pc, err, m, ids, informers, waited, cancelled,
                   records, order, allNamespace, calls>>

\* after the list, the watch of informer i reports that an object it knows
\* was deleted
InformerWatchDelete(i, ns) ==
    /\ Running /\ ~inf[i].stopped /\ inf[i].listed
    /\ nWatch < MaxWatch
    /\ inf[i].store[ns] > 0
    /\ nWatch' = nWatch + 1
    /\ inf' = [inf EXCEPT ![i] =
          [@ EXCEPT !.fifo = Append(@, [type |-> "delete", namespace |-> ns,
                                        obj |-> "Unstructured"]),
                    !.store = [@ EXCEPT ![ns] = @ - 1]]]
    /\ UNCHANGED locking
    /\ UNCHANGED output
    /\ UNCHANGED <<discovery, barrier>>
    /\ UNCHANGED <<s, pc, err, m, ids, informers, waited, cancelled,
                   records, order, allNamespace, calls>>

\* after the list, the watch of informer i ends with an error: the empty
\* handler is called, the reflector lists again and finds an object it
\* knows gone, for which DeltaFIFO.Replace queues a Deleted delta holding a
\* cache.DeletedFinalStateUnknown tombstone
InformerRelist(i, ns) ==
    /\ Running /\ ~inf[i].stopped /\ inf[i].listed
    /\ nWatch < MaxWatch
    /\ inf[i].store[ns] > 0
    /\ nWatch' = nWatch + 1
    /\ inf' = [inf EXCEPT ![i] =
          [@ EXCEPT !.fifo = Append(@, [type |-> "delete", namespace |-> ns,
                                        obj |-> "DeletedFinalStateUnknown"]),
                    !.store = [@ EXCEPT ![ns] = @ - 1]]]
    /\ UNCHANGED locking
    /\ UNCHANGED output
    /\ UNCHANGED <<discovery, barrier>>
    /\ UNCHANGED <<s, pc, err, m, ids, informers, waited, cancelled,
                   records, order, allNamespace, calls>>

\* the controller of informer i pops one delta and distributes it to the
\* listener
HandleDeltas(i) ==
    /\ Running /\ ~inf[i].stopped
    /\ inf[i].fifo # <<>>
    /\ inf' = [inf EXCEPT ![i] =
          [@ EXCEPT !.fifo = Tail(@),
                    !.initialPopulationCount = IF @ > 0 THEN @ - 1 ELSE @,
                    !.pending = Append(@, Head(inf[i].fifo))]]
    /\ UNCHANGED locking
    /\ UNCHANGED output
    /\ UNCHANGED <<discovery, barrier>>
    /\ UNCHANGED <<s, pc, err, m, ids, informers, waited, cancelled, nWatch,
                   records, order, allNamespace, calls>>

\* the AddFunc registered for id i runs on the listener's next notification
AddFunc(i) ==
    /\ Running /\ ~inf[i].stopped
    /\ inf[i].pending # <<>>
    /\ Head(inf[i].pending).type = "add"
    /\ LET n == Head(inf[i].pending)
       IN  IF n.obj = "Unstructured"
           THEN /\ m' = IDMapAdd(m, i, n.namespace)
                /\ calls' = RecordAdd(calls, i, n.namespace)
           ELSE UNCHANGED <<m, calls>>
    /\ inf' = [inf EXCEPT ![i] = [@ EXCEPT !.pending = Tail(@)]]
    /\ UNCHANGED locking
    /\ UNCHANGED output
    /\ UNCHANGED <<discovery, barrier>>
    /\ UNCHANGED <<s, pc, err, ids, informers, waited, cancelled, nWatch,
                   records, order, allNamespace>>

\* the DeleteFunc registered for id i runs on the listener's next
\* notification
DeleteFunc(i) ==
    /\ Running /\ ~inf[i].stopped
    /\ inf[i].pending # <<>>
    /\ Head(inf[i].pending).type = "delete"
    /\ LET n == Head(inf[i].pending)
       IN  IF n.obj = "Unstructured"
           THEN /\ m' = IDMapDel(m, i, n.namespace)
                /\ calls' = RecordDel(calls, i, n.namespace)
           ELSE UNCHANGED <<m, calls>>
    /\ inf' = [inf EXCEPT ![i] = [@ EXCEPT !.pending = Tail(@)]]
    /\ UNCHANGED locking
    /\ UNCHANGED output
    /\ UNCHANGED <<discovery, barrier>>
    /\ UNCHANGED <<s, pc, err, ids, informers, waited, cancelled, nWatch,
                   records, order, allNamespace>>

\* the end of informer i's goroutines as it would be if each informer had
\* a stop channel of its own, closed at any time
InformerStopAlone(i) ==
    /\ Running /\ ~inf[i].stopped
    /\ inf' = [inf EXCEPT ![i] =
          [@ EXCEPT !.stopped = TRUE, !.fifo = <<>>, !.pending = <<>>]]
    /\ UNCHANGED locking
    /\ UNCHANGED output
    /\ UNCHANGED <<discovery, barrier>>
    /\ UNCHANGED <<s, pc, err, m, ids, informers, waited, cancelled, nWatch,
                   records, order, allNamespace, calls>>

\* informer i's goroutines observe the closed stop channel and end
InformerStop(i) ==
    /\ Running /\ cancelled /\ ~inf[i].stopped
    /\ inf' = [inf EXCEPT ![i] =
          [@ EXCEPT !.stopped = TRUE, !.fifo = <<>>, !.pending = <<>>]]
    /\ UNCHANGED locking
    /\ UNCHANGED output
    /\ UNCHANGED <<discovery, barrier>>
    /\ UNCHANGED <<s, pc, err, m, ids, informers, waited, cancelled, nWatch,
                   records, order, allNamespace, calls>>

\* the barrier loop as it would be if it did not consult HasSynced
WaitWithoutSync(i) ==
    /\ pc = "syncing"
    /\ barrier # <<>> /\ i = Head(barrier)
    /\ waited' = waited \cup {i}
    /\ barrier' = Tail(barrier)
    /\ UNCHANGED locking
    /\ UNCHANGED output
    /\ UNCHANGED discovery
    /\ UNCHANGED <<s, pc, err, m, ids, informers, inf, cancelled, nWatch,
                   records, order, allNamespace, calls>>

\* one iteration of the barrier loop, which is at informer i:
\* WaitForNamedCacheSync returns true.  It returns false only when cc.ctx.Done() is closed while
\* it polls; the context has no deadline and cc.cancel() is called only
\* after the loop, so inside the loop the call returns true or keeps
\* polling, and the "failed to sync" return of list is never taken.
WaitForNamedCacheSync(i) ==
    /\ pc = "syncing"
    /\ barrier # <<>> /\ i = Head(barrier)
    /\ HasSynced(i)
    /\ waited' = waited \cup {i}
    /\ barrier' = Tail(barrier)
    /\ UNCHANGED locking
    /\ UNCHANGED output
    /\ UNCHANGED discovery
    /\ UNCHANGED <<s, pc, err, m, ids, informers, inf, cancelled, nWatch,
                   records, order, allNamespace, calls>>

\* the end of the barrier loop as it would be if the loop ended after the
\* first informer
CancelAfterFirst ==
    /\ pc = "syncing"
    /\ waited # {}
    /\ cancelled' = TRUE
    /\ pc' = "listed"
    /\ UNCHANGED locking
    /\ UNCHANGED output
    /\ UNCHANGED <<discovery, barrier>>
    /\ UNCHANGED <<s, err, m, ids, informers, inf, waited, nWatch,
                   records, order, allNamespace, calls>>

\* the barrier loop is over: cc.cancel(), list returns the IDMap
Cancel ==
    /\ pc = "syncing"
    /\ barrier = <<>>
    /\ cancelled' = TRUE
    /\ pc' = "listed"
    /\ UNCHANGED locking
    /\ UNCHANGED output
    /\ UNCHANGED <<discovery, barrier>>
    /\ UNCHANGED <<s, err, m, ids, informers, inf, waited, nWatch,
                   records, order, allNamespace, calls>>

\* Render after list: records := idMap.GetRecords(order, allNamespace).
\* The informers' goroutines are still alive when it has returned.
RenderGetRecords(o, all) ==
    /\ pc = "listed"
    /\ \E rs \in GetRecords(m, ids, o, all) : records' = rs
    /\ pc' = "snapshot"
    /\ order' = o
    /\ allNamespace' = all
    /\ UNCHANGED locking
    /\ UNCHANGED output
    /\ UNCHANGED <<discovery, barrier>>
    /\ UNCHANGED <<s, err, m, ids, informers, inf, waited, cancelled, nWatch,
                   calls>>

\* the rest of Render: without Records a message is written to os.Stdout
\* and the process exits 1, else the Records are rendered to os.Stdout and
\* the process ends
RenderWrite ==
    /\ pc = "snapshot"
    /\ pc' = IF Len(records) <= 0 THEN "exit1" ELSE "rendered"
    /\ stdout' = IF Len(records) <= 0 THEN <<NoResources>> ELSE records
    /\ stderr' = stderr
    /\ UNCHANGED locking
    /\ UNCHANGED <<discovery, barrier>>
    /\ UNCHANGED <<s, err, m, ids, informers, inf, waited, cancelled, nWatch,
                   records, order, allNamespace, calls>>

Next ==
    \/ List
    \/ \E i \in DOMAIN informers : WatchError(i)
    \/ \E i \in DOMAIN informers : \E objs \in Lists : InformerList(i, objs)
    \/ \E i \in DOMAIN informers : \E ns \in Namespaces : InformerWatchAdd(i, ns)
    \/ \E i \in DOMAIN informers : \E ns \in Namespaces : InformerWatchDelete(i, ns)
    \/ \E i \in DOMAIN informers : \E ns \in Namespaces : InformerRelist(i, ns)
    \/ \E i \in DOMAIN informers : HandleDeltas(i)
    \/ \E i \in DOMAIN informers : AddFunc(i)
    \/ \E i \in DOMAIN informers : DeleteFunc(i)
    \/ \E i \in DOMAIN informers : InformerStop(i)
    \/ \E i \in DOMAIN informers : WaitForNamedCacheSync(i)
    \/ Cancel
    \/ \E a \in RenderArgs : RenderGetRecords(a[1], a[2])
    \/ RenderWrite

Spec == Init /\ [][Next]_vars

\* The main goroutine keeps running: each of its steps (list's resolution,
\* an iteration of the barrier loop whose informer has synced, cc.cancel(),
\* GetRecords, the output) is taken once it stays possible.  Nothing is
\* assumed of the informers: a list that fails is retried for ever behind
\* the empty watch error handler.
SpecLive ==
    /\ Spec
    /\ WF_vars(List)
    /\ WF_vars(\E i \in DOMAIN informers : WaitForNamedCacheSync(i))
    /\ WF_vars(Cancel)
    /\ WF_vars(\E a \in RenderArgs : RenderGetRecords(a[1], a[2]))
    /\ WF_vars(RenderWrite)

(***************************************************************************)
(* The IDMap on its own: after list has filled ids, any sequence of Add,   *)
(* Del and GetRecords calls on the ids resolved.                           *)
(***************************************************************************)
Calls == SumOver([p \in Pairs |-> calls.add[p] + calls.del[p]], Pairs)

\* one more <kinds> argument for the IDMap on its own: "pods,jobs,pods"
MoreInputs == { <<"p","o","d","s",",","j","o","b","s",",","p","o","d","s">> }

\* the contents of ids that list produces for the arguments tried
ResolutionOrders ==
    {AddIDs(<<>>, Resolved(sanitizeKinds(in), AliasMap)) :
        in \in Inputs \cup MoreInputs} \ {<<>>}

InitIDMap ==
    /\ s = <<>>
    /\ discovery = ServerPreferredResources
    /\ barrier = <<>>
    /\ pc = "idmap"
    /\ err = ""
    /\ m = <<>>
    /\ ids \in ResolutionOrders
    /\ informers = <<>>
    /\ inf = <<>>
    /\ waited = {}
    /\ cancelled = FALSE
    /\ nWatch = 0
    /\ records = <<>>
    /\ order = <<>>
    /\ allNamespace = FALSE
    /\ calls = NoCalls
    /\ lock = ""
    /\ th = [t \in Threads |-> Idle]
    /\ log = <<>>
    /\ stdout = <<>>
    /\ stderr = <<>>

CallAdd(id, ns) ==
    /\ Calls < MaxOps
    /\ m' = IDMapAdd(m, id, ns)
    /\ calls' = RecordAdd(calls, id, ns)
    /\ UNCHANGED locking
    /\ UNCHANGED output
    /\ UNCHANGED <<discovery, barrier>>
    /\ UNCHANGED <<s, pc, err, ids, informers, inf, waited, cancelled, nWatch,
                   records, order, allNamespace>>

CallDel(id, ns) ==
    /\ Calls < MaxOps
    /\ m' = IDMapDel(m, id, ns)
    /\ calls' = RecordDel(calls, id, ns)
    /\ UNCHANGED locking
    /\ UNCHANGED output
    /\ UNCHANGED <<discovery, barrier>>
    /\ UNCHANGED <<s, pc, err, ids, informers, inf, waited, cancelled, nWatch,
                   records, order, allNamespace>>

CallGetRecords(o, all) ==
    /\ \E rs \in GetRecords(m, ids, o, all) : records' = rs
    /\ order' = o
    /\ allNamespace' = all
    /\ UNCHANGED locking
    /\ UNCHANGED output
    /\ UNCHANGED <<discovery, barrier>>
    /\ UNCHANGED <<s, pc, err, m, ids, informers, inf, waited, cancelled,
                   nWatch, calls>>

NextIDMap ==
    \/ \E id \in Range(ids) : \E ns \in Namespaces : CallAdd(id, ns)
    \/ \E id \in Range(ids) : \E ns \in Namespaces : CallDel(id, ns)
    \/ \E o \in Orders : \E all \in BOOLEAN : CallGetRecords(o, all)

SpecIDMap == InitIDMap /\ [][NextIDMap]_vars

(***************************************************************************)
(* The IDMap under its lock: the handler goroutines call Add and Del and   *)
(* Render's goroutine calls GetRecords, all at the same time, each method  *)
(* statement by statement.                                                 *)
(***************************************************************************)
\* sync.Mutex.Lock as it would be if it did not wait
AcquireNoWait(t) == lock' = t

\* idm.lock.Lock()
Acquire(t) == lock = "" /\ lock' = t

\* defer idm.lock.Unlock()
Release(t) == lock' = ""

\* Add(id, ns) is called by goroutine w and takes the lock
AddLock(w, id, ns) ==
    /\ th[w].pc = "idle"
    /\ Len(log) < MaxOps
    /\ Acquire(w)
    /\ th' = [th EXCEPT ![w] = [Idle EXCEPT !.pc = "check", !.op = "Add",
                                            !.id = id, !.ns = ns]]
    /\ log' = Append(log, [op |-> "Add", id |-> id, ns |-> ns])
    /\ UNCHANGED output
    /\ UNCHANGED <<discovery, barrier>>
    /\ UNCHANGED <<s, pc, err, m, ids, informers, inf, waited, cancelled,
                   nWatch, records, order, allNamespace, calls>>

\* Del(id, ns) is called by goroutine w and takes the lock
DelLock(w, id, ns) ==
    /\ th[w].pc = "idle"
    /\ Len(log) < MaxOps
    /\ Acquire(w)
    /\ th' = [th EXCEPT ![w] = [Idle EXCEPT !.pc = "check", !.op = "Del",
                                            !.id = id, !.ns = ns]]
    /\ log' = Append(log, [op |-> "Del", id |-> id, ns |-> ns])
    /\ UNCHANGED output
    /\ UNCHANGED <<discovery, barrier>>
    /\ UNCHANGED <<s, pc, err, m, ids, informers, inf, waited, cancelled,
                   nWatch, records, order, allNamespace, calls>>

\* if _, ok := idm.m[id]; !ok : Add creates the id's map, Del returns
Check(w) ==
    /\ th[w].pc = "check"
    /\ IF th[w].id \in DOMAIN m
       THEN /\ m' = m
            /\ th' = [th EXCEPT ![w].pc = "read"]
       ELSE IF th[w].op = "Add"
       THEN /\ m' = (th[w].id :> <<>>) @@ m
            /\ th' = [th EXCEPT ![w].pc = "read"]
       ELSE /\ m' = m
            /\ th' = [th EXCEPT ![w].pc = "unlock"]
    /\ UNCHANGED output
    /\ UNCHANGED <<discovery, barrier>>
    /\ UNCHANGED <<s, pc, err, ids, informers, inf, waited, cancelled,
                   nWatch, records, order, allNamespace, calls, lock, log>>

\* idm.m[id][namespace]++ / --, first half: the count is read (0 when the
\* namespace has no entry)
Read(w) ==
    /\ th[w].pc = "read"
    /\ th' = [th EXCEPT ![w].pc = "write",
                        ![w].tmp = IF th[w].ns \in DOMAIN m[th[w].id]
                                   THEN m[th[w].id][th[w].ns] ELSE 0]
    /\ UNCHANGED output
    /\ UNCHANGED <<discovery, barrier>>
    /\ UNCHANGED <<s, pc, err, m, ids, informers, inf, waited, cancelled,
                   nWatch, records, order, allNamespace, calls, lock, log>>

\* idm.m[id][namespace]++ / --, second half: the new count is stored
Write(w) ==
    /\ th[w].pc = "write"
    /\ LET c == IF th[w].op = "Add" THEN th[w].tmp + 1 ELSE th[w].tmp - 1
       IN  m' = [m EXCEPT ![th[w].id] = (th[w].ns :> c) @@ @]
    /\ th' = [th EXCEPT ![w].pc = "unlock"]
    /\ UNCHANGED output
    /\ UNCHANGED <<discovery, barrier>>
    /\ UNCHANGED <<s, pc, err, ids, informers, inf, waited, cancelled,
                   nWatch, records, order, allNamespace, calls, lock, log>>

\* GetRecords(o, all) is called by Render's goroutine and takes the lock
GetRecordsLock(o, all) ==
    /\ th["r"].pc = "idle"
    /\ Acquire("r")
    /\ th' = [th EXCEPT !["r"] = [Idle EXCEPT !.pc = "range"]]
    /\ order' = o
    /\ allNamespace' = all
    /\ UNCHANGED output
    /\ UNCHANGED <<discovery, barrier>>
    /\ UNCHANGED <<s, pc, err, m, ids, informers, inf, waited, cancelled,
                   nWatch, records, calls, log>>

\* one iteration of `for id, counter := range idm.m`: the Records of id
\* are built from its namespace map
GetRecordsRange(id) ==
    /\ th["r"].pc = "range"
    /\ id \in DOMAIN m /\ id \notin DOMAIN th["r"].seen
    /\ th' = [th EXCEPT !["r"].seen = (id :> m[id]) @@ @]
    /\ UNCHANGED output
    /\ UNCHANGED <<discovery, barrier>>
    /\ UNCHANGED <<s, pc, err, m, ids, informers, inf, waited, cancelled,
                   nWatch, records, order, allNamespace, calls, lock, log>>

\* the range loop is over: the collapse, the sorts and the concatenation
\* work on what the loop has read
GetRecordsReturn ==
    /\ th["r"].pc = "range"
    /\ DOMAIN m \subseteq DOMAIN th["r"].seen
    /\ \E rs \in GetRecords(th["r"].seen, ids, order, allNamespace) :
          records' = rs
    /\ th' = [th EXCEPT !["r"].pc = "unlock"]
    /\ UNCHANGED output
    /\ UNCHANGED <<discovery, barrier>>
    /\ UNCHANGED <<s, pc, err, m, ids, informers, inf, waited, cancelled,
                   nWatch, order, allNamespace, calls, lock, log>>

\* the deferred Unlock runs as the method returns
Unlock(t) ==
    /\ th[t].pc = "unlock"
    /\ Release(t)
    /\ th' = [th EXCEPT ![t] = Idle]
    /\ UNCHANGED output
    /\ UNCHANGED <<discovery, barrier>>
    /\ UNCHANGED <<s, pc, err, m, ids, informers, inf, waited, cancelled,
                   nWatch, records, order, allNamespace, calls, log>>

NextLock ==
    \/ \E w \in Workers : \E id \in Range(ids) : \E ns \in Namespaces :
          AddLock(w, id, ns)
    \/ \E w \in Workers : \E id \in Range(ids) : \E ns \in Namespaces :
          DelLock(w, id, ns)
    \/ \E w \in Workers : Check(w)
    \/ \E w \in Workers : Read(w)
    \/ \E w \in Workers : Write(w)
    \/ \E o \in Orders : \E all \in BOOLEAN : GetRecordsLock(o, all)
    \/ \E id \in AllIDs : GetRecordsRange(id)
    \/ GetRecordsReturn
    \/ \E t \in Threads : Unlock(t)

SpecLock == InitIDMap /\ [][NextLock]_vars

(***************************************************************************)
(* Properties.                                                             *)
(***************************************************************************)
HasEntry(mm, id, ns) == id \in DOMAIN mm /\ ns \in DOMAIN mm[id]

\* the positions of the Records of (id, ns) in rs
RecordsOf(rs, id, ns) ==
    {k \in DOMAIN rs : /\ rs[k].Kind = KindGroupVersion(id).kind
                       /\ rs[k].GroupVersion = KindGroupVersion(id).groupVersion
                       /\ rs[k].Namespace = ns}

\* GetRecords has been called by Render (it returned records, or none)
SnapshotTaken == pc \in {"snapshot", "rendered"} \/ (pc = "exit1" /\ err = "")

\* the step in which Render's GetRecords reads the store
TakesSnapshot == pc = "listed" /\ pc' = "snapshot"

\* C1 as claimed: for every (id, namespace) pair that received Add or Del
\* calls, the count in the store is exactly (number of Add calls) minus
\* (number of Del calls), whatever the order of the calls: no call is
\* dropped, a lone Del yields -1.
C1_CountIsAddsMinusDels ==
    \A p \in Pairs :
        calls.add[p] + calls.del[p] > 0 =>
            /\ HasEntry(m, p[1], p[2])
            /\ m[p[1]][p[2]] = calls.add[p] - calls.del[p]

\* C2: once list has returned (and at any time after GetRecords), every
\* informer of the informers map has HasSynced = true and the barrier loop
\* has waited for it; every resolved id has its informer in the map.
C2_SnapshotAfterAllSynced ==
    (pc = "listed" \/ SnapshotTaken) =>
        /\ \A i \in DOMAIN informers : HasSynced(i) /\ i \in waited
        /\ Range(ids) = DOMAIN informers

\* C2 witness: records were rendered in a run with two informers.
C2_Witness ==
    /\ pc = "rendered"
    /\ Cardinality(DOMAIN informers) = 2

\* C3 as claimed: when the snapshot is taken and no incremental event was
\* produced, the reported per-namespace count of every (id, namespace) is
\* the number of objects of that namespace in the informer's initial list
\* (no Record where the list has none).
C3_InitialListCounted ==
    (SnapshotTaken /\ nWatch = 0 /\ ~allNamespace) =>
        \A i \in DOMAIN informers : \A ns \in Namespaces :
            LET n == CountIn(inf[i].initial, ns)
            IN  IF n = 0 THEN RecordsOf(records, i, ns) = {}
                ELSE /\ RecordsOf(records, i, ns) # {}
                     /\ \A k \in RecordsOf(records, i, ns) : records[k].Count = n

\* C4 as claimed: from cc.cancel() until GetRecords has read the store, no
\* Add or Del is applied to the store.
C4_NoWriteAfterCancel ==
    [][(cancelled /\ pc = "listed") => m' = m]_vars

\* the tokens of the <kinds> argument, and which discovery entries a token
\* names by one of its aliases
Tokens == sanitizeKinds(s)

MatchedBy(tok) ==
    {i \in DOMAIN Descriptors : \E k \in DOMAIN Descriptors[i].keys :
                                    Descriptors[i].keys[k] = tok}

\* the positions of the Records of id in rs
RecordsOfID(rs, id) ==
    {k \in DOMAIN rs : /\ rs[k].Kind = KindGroupVersion(id).kind
                       /\ rs[k].GroupVersion = KindGroupVersion(id).groupVersion}

Occurrences(idsq, id) == Cardinality({k \in DOMAIN idsq : idsq[k] = id})

Min(S) == CHOOSE x \in S : \A y \in S : x <= y

\* C5: a token naming at least one discovery entry contributes at least
\* one id; a token naming none contributes nothing and is no error by
\* itself; when there is no token, or no token names anything (as when
\* getApiResources returned no alias map but an error), list fails with
\* the error of the first failing test and nothing was started: no
\* informer exists, no handler has run.
C5_Resolution ==
    pc # "start" =>
        LET apiResources == ApiResources[discovery]
            matching == IF apiResources.err # "" THEN {}
                        ELSE {k \in DOMAIN Tokens : MatchedBy(Tokens[k]) # {}}
        IN  /\ (\A k \in DOMAIN s : IsSpace(s[k]) \/ s[k] = ",") =>
                   Tokens = <<>>
            /\ IF matching = {}
               THEN /\ pc = "exit1"
                    /\ err = IF Tokens = <<>>
                             THEN "invalid input kind name: '" \o Str(s) \o "'"
                             ELSE IF apiResources.err # ""
                             THEN apiResources.err
                             ELSE "no available informers found"
                    /\ ids = <<>> /\ informers = <<>> /\ inf = <<>>
                    /\ m = <<>> /\ calls = NoCalls /\ records = <<>>
               ELSE /\ err = ""
                    /\ \A k \in matching :
                          \E i \in MatchedBy(Tokens[k]) :
                              /\ ID(Descriptors[i].agv) \in Range(ids)
                              /\ ID(Descriptors[i].agv) \in DOMAIN informers
                    /\ \A id \in Range(ids) :
                          \E k \in matching : \E i \in MatchedBy(Tokens[k]) :
                              ID(Descriptors[i].agv) = id

\* C5 witness: records were rendered for an argument with one token that
\* names a discovery entry and one that names none.
C5_Witness ==
    /\ pc = "rendered"
    /\ \E k \in DOMAIN Tokens : MatchedBy(Tokens[k]) = {}
    /\ \E k \in DOMAIN Tokens : MatchedBy(Tokens[k]) # {}

SameKindOtherGV(a, b) ==
    /\ a.resource.Kind = b.resource.Kind
    /\ a.groupVersion # b.groupVersion

C6_State ==
    (pc # "start" /\ err = "") =>
        \A t \in DOMAIN Tokens : \A i, j \in MatchedBy(Tokens[t]) :
            LET a == Descriptors[i].agv
                b == Descriptors[j].agv
            IN  SameKindOtherGV(a, b) =>
                  /\ ID(a) # ID(b)
                  /\ ID(a) \in DOMAIN informers
                  /\ informers[ID(a)] = GVR(a)
                  /\ ID(a) \in Range(ids)
                  /\ ( /\ SnapshotTaken /\ i < j
                       /\ RecordsOfID(records, ID(a)) # {}
                       /\ RecordsOfID(records, ID(b)) # {} ) =>
                         Min(RecordsOfID(records, ID(a)))
                             < Min(RecordsOfID(records, ID(b)))

C6_Step ==
    /\ \A i \in DOMAIN inf :
          (Running /\ inf'[i] # inf[i]) =>
              \A id \in (DOMAIN m \cup DOMAIN m') \ {i} :
                  id \in DOMAIN m /\ id \in DOMAIN m' /\ m'[id] = m[id]
    /\ TakesSnapshot =>
          \A t \in DOMAIN Tokens : \A i, j \in MatchedBy(Tokens[t]) :
              LET a == Descriptors[i].agv
                  b == Descriptors[j].agv
              IN  SameKindOtherGV(a, b) =>
                    /\ ID(a) \in DOMAIN m => RecordsOfID(records', ID(a)) # {}
                    /\ \A k \in RecordsOfID(records', ID(a)) :
                          records'[k].Count =
                              IF allNamespace'
                              THEN SumOver(m[ID(a)], DOMAIN m[ID(a)])
                              ELSE m[ID(a)][records'[k].Namespace]

\* C6: when one token names several discovery entries of the same kind
\* under different group/versions, each has its own id, its own informer
\* (for its own resource) and its own counts; a step of one informer never
\* changes the counts of another id; the Records that GetRecords returns
\* for each carry its own counts as the store holds them at that step, and
\* the groups first appear in the order resolved.
C6_SeparateIdentities == [](C6_State) /\ [][C6_Step]_vars

\* C6 witness: records were rendered that hold a group for each of two ids
\* of the same kind under different group/versions.
C6_Witness ==
    /\ pc = "rendered"
    /\ \E i, j \in DOMAIN Descriptors :
          /\ SameKindOtherGV(Descriptors[i].agv, Descriptors[j].agv)
          /\ RecordsOfID(records, ID(Descriptors[i].agv)) # {}
          /\ RecordsOfID(records, ID(Descriptors[j].agv)) # {}

\* C7 as claimed: two discovery entries named by one token that share kind
\* and group/version but differ in plural resource name are distinct
\* identities, each with its own informer.
C7_DistinctByPluralName ==
    (pc # "start" /\ err = "") =>
        \A t \in DOMAIN Tokens : \A i, j \in MatchedBy(Tokens[t]) :
            LET a == Descriptors[i].agv
                b == Descriptors[j].agv
            IN  ( /\ a.resource.Kind = b.resource.Kind
                  /\ a.groupVersion = b.groupVersion
                  /\ a.resource.Name # b.resource.Name ) =>
                    /\ ID(a) # ID(b)
                    /\ \E id \in DOMAIN informers : informers[id] = GVR(a)
                    /\ \E id \in DOMAIN informers : informers[id] = GVR(b)

\* a token that names a discovery entry is given twice
TokenTwice ==
    \E k1, k2 \in DOMAIN Tokens :
        k1 < k2 /\ Tokens[k1] = Tokens[k2] /\ MatchedBy(Tokens[k1]) # {}

\* informer i has delivered every object of its initial list, and nothing
\* else, to its handlers
AllDelivered(i) ==
    /\ nWatch = 0
    /\ inf[i].listed /\ ~inf[i].stopped
    /\ inf[i].fifo = <<>> /\ inf[i].pending = <<>>

\* with the same token given twice, ids holds the id twice
C8_State ==
    (TokenTwice /\ pc # "start" /\ err = "") =>
        \A i \in DOMAIN informers : Occurrences(ids, i) >= 2

\* GetRecords, called when everything was delivered, reports for every
\* namespace twice the number of its objects
C8_StepTwice ==
    (TokenTwice /\ TakesSnapshot /\ ~allNamespace') =>
        \A i \in DOMAIN informers :
            AllDelivered(i) =>
                \A ns \in Namespaces : \A k \in RecordsOf(records', i, ns) :
                    records'[k].Count = 2 * CountIn(inf[i].initial, ns)

\* GetRecords, called when everything was delivered, finds each object
\* counted once and repeats the id's group once per occurrence in ids
C8_Step ==
    (TokenTwice /\ TakesSnapshot) =>
        \A i \in DOMAIN informers :
            AllDelivered(i) =>
                /\ \A ns \in Namespaces :
                      IF CountIn(inf[i].initial, ns) = 0
                      THEN ~HasEntry(m, i, ns)
                      ELSE /\ HasEntry(m, i, ns)
                           /\ m[i][ns] = CountIn(inf[i].initial, ns)
                /\ ~allNamespace' =>
                      \A ns \in Namespaces :
                          /\ Cardinality(RecordsOf(records', i, ns)) =
                                IF CountIn(inf[i].initial, ns) = 0 THEN 0
                                ELSE Occurrences(ids, i)
                          /\ \A k \in RecordsOf(records', i, ns) :
                                records'[k].Count = CountIn(inf[i].initial, ns)
                /\ (allNamespace' /\ inf[i].initial # <<>>) =>
                      /\ Cardinality(RecordsOfID(records', i)) = Occurrences(ids, i)
                      /\ \A k \in RecordsOfID(records', i) :
                            records'[k].Count = Len(inf[i].initial)

\* C8 as claimed: with the same token given twice, ids holds the id twice
\* and every object of that id is counted twice: the count GetRecords
\* reports for a namespace is twice the number of its objects.
C8_EveryObjectCountedTwice == [](C8_State) /\ [][C8_StepTwice]_vars

\* C8 as amended: with the same token given twice, ids holds the id twice
\* but there is one informer and one pair of handlers for it, so each
\* object is counted once; the id's group of Records appears once per
\* occurrence in ids, each Record with the undoubled count.
C8_GroupListedTwice == [](C8_State) /\ [][C8_Step]_vars

\* C8 witness: the token was given twice, its one object was delivered,
\* and the per-namespace output holds two Records of count 1 for it.
C8_Witness ==
    /\ TokenTwice /\ pc = "rendered" /\ ~allNamespace
    /\ \E i \in DOMAIN informers :
          /\ nWatch = 0
          /\ Occurrences(ids, i) = 2
          /\ Len(inf[i].initial) = 1
          /\ Len(records) = 2
          /\ records[1].Count = 1 /\ records[2].Count = 1

\* a step of the IDMap-only specification that is a GetRecords call
IsGetRecords == calls' = calls

\* C9 as claimed: in aggregate mode GetRecords returns, for every id with
\* entries, exactly one Record: count = the sum of the id's per-namespace
\* counts, namespace empty, kind and group/version those of the id.
C9_OneAggregateRecord ==
    [][(IsGetRecords /\ allNamespace') =>
          \A id \in DOMAIN m :
              /\ Cardinality(RecordsOfID(records', id)) = 1
              /\ \A k \in RecordsOfID(records', id) :
                    /\ records'[k].Namespace = ""
                    /\ records'[k].Count = SumOver(m[id], DOMAIN m[id])]_vars

\* C9 as amended: one such Record for every occurrence of the id in ids
\* (exactly one when the id was resolved once), and no other Record.
C9_AggregateRecordPerOccurrence ==
    [][(IsGetRecords /\ allNamespace') =>
          /\ \A id \in DOMAIN m :
                /\ Cardinality(RecordsOfID(records', id)) = Occurrences(ids, id)
                /\ \A k \in RecordsOfID(records', id) :
                      /\ records'[k].Namespace = ""
                      /\ records'[k].Count = SumOver(m[id], DOMAIN m[id])
          /\ \A k \in DOMAIN records' :
                \E id \in DOMAIN m : k \in RecordsOfID(records', id)]_vars

\* C9 witness: the store holds 2 and 1 for the two namespaces of an id and
\* the aggregate output starts with its Record of count 3.
C9_Witness ==
    /\ allNamespace
    /\ \E id \in DOMAIN m :
          /\ m[id] = ("n1" :> 2) @@ ("n2" :> 1)
          /\ records # <<>>
          /\ records[1] = [Namespace |-> "",
                           Kind |-> KindGroupVersion(id).kind,
                           GroupVersion |-> KindGroupVersion(id).groupVersion,
                           Count |-> 3]

\* the number of Records GetRecords emits for one occurrence of id
GroupSize(mm, id, all) ==
    IF id \notin DOMAIN mm THEN 0
    ELSE IF all THEN 1 ELSE Cardinality(DOMAIN mm[id])

RECURSIVE GroupStart(_, _, _, _)
GroupStart(mm, idsq, all, p) ==
    IF p = 1 THEN 0
    ELSE GroupStart(mm, idsq, all, p - 1) + GroupSize(mm, idsq[p - 1], all)

\* C10: within the group of Records of every entry of ids, counts are
\* non-increasing when the order is desc or d in any letter case, and
\* non-decreasing for every other order string.
C10_GroupsSorted ==
    [][IsGetRecords =>
          \A p \in DOMAIN ids :
              LET from == GroupStart(m, ids, allNamespace', p)
                  n    == GroupSize(m, ids[p], allNamespace')
              IN  \A k \in 1..(n - 1) :
                      /\ from + k + 1 \in DOMAIN records'
                      /\ from + k \in RecordsOfID(records', ids[p])
                      /\ from + k + 1 \in RecordsOfID(records', ids[p])
                      /\ IF order' \in {<<"d","e","s","c">>, <<"D">>}
                         THEN records'[from + k].Count >= records'[from + k + 1].Count
                         ELSE records'[from + k].Count <= records'[from + k + 1].Count]_vars

\* C10 witness: an output asked for with order D whose first two
\* Records belong to one id and have counts 2 and 1.
C10_Witness ==
    /\ order = <<"D">> /\ ~allNamespace
    /\ Len(records) >= 2
    /\ records[1].Kind = records[2].Kind
    /\ records[1].GroupVersion = records[2].GroupVersion
    /\ records[1].Count = 2 /\ records[2].Count = 1

FirstIndex(idsq, id) == Min({k \in DOMAIN idsq : idsq[k] = id})

Max(S) == CHOOSE x \in S : \A y \in S : x >= y

Contiguous(S) == \A k \in Min(S)..Max(S) : k \in S

\* the output rs holds exactly one contiguous group for every id of idsq
\* that has entries, the groups in the order of the ids' first occurrence
OneGroupPerIdentity(mm, idsq, all, rs) ==
    /\ \A id \in Range(idsq) :
          /\ Cardinality(RecordsOfID(rs, id)) = GroupSize(mm, id, all)
          /\ RecordsOfID(rs, id) # {} => Contiguous(RecordsOfID(rs, id))
    /\ \A a, b \in Range(idsq) :
          ( /\ FirstIndex(idsq, a) < FirstIndex(idsq, b)
            /\ RecordsOfID(rs, a) # {} /\ RecordsOfID(rs, b) # {} ) =>
              Max(RecordsOfID(rs, a)) < Min(RecordsOfID(rs, b))
    /\ \A k \in DOMAIN rs : \E id \in Range(idsq) : k \in RecordsOfID(rs, id)

\* C11 as claimed: the output of GetRecords consists of exactly one
\* contiguous group per resolved id, the groups in the order in which the
\* ids were first resolved, whatever the order string and the counts.
C11_OneGroupPerIdentity ==
    [][IsGetRecords =>
          OneGroupPerIdentity(m, ids, allNamespace', records')]_vars

\* C11 as amended: the output is one group per entry of ids, in the order
\* of ids, whatever the order string and the counts: an id that list
\* appended more than once has its group once per entry (and the groups of
\* one id need not be adjacent); when every id was appended once, the
\* output is exactly one contiguous group per id in resolution order.
C11_OneGroupPerEntry ==
    [][IsGetRecords =>
          /\ Len(records') = GroupStart(m, ids, allNamespace', Len(ids) + 1)
          /\ \A p \in DOMAIN ids :
                \A k \in 1..GroupSize(m, ids[p], allNamespace') :
                    GroupStart(m, ids, allNamespace', p) + k
                        \in RecordsOfID(records', ids[p])
          /\ (\A id \in Range(ids) : Occurrences(ids, id) = 1) =>
                OneGroupPerIdentity(m, ids, allNamespace', records')]_vars

\* C11 witness: an ascending output of two ids resolved once each, where
\* the group of the id resolved first has the larger count.
C11_Witness ==
    /\ order = <<"a","s","c">> /\ ~allNamespace
    /\ Len(ids) = 2 /\ ids[1] # ids[2]
    /\ Len(records) = 2
    /\ 1 \in RecordsOfID(records, ids[1])
    /\ 2 \in RecordsOfID(records, ids[2])
    /\ records[1].Count > records[2].Count

\* C12 as claimed: in per-namespace mode GetRecords emits exactly one
\* Record for every (id, namespace) pair that has an entry in the store,
\* whatever its count, and none for a pair without entry.
C12_OneRecordPerEntry ==
    [][(IsGetRecords /\ ~allNamespace') =>
          \A p \in Pairs :
              /\ Cardinality(RecordsOf(records', p[1], p[2])) =
                    IF HasEntry(m, p[1], p[2]) THEN 1 ELSE 0
              /\ \A k \in RecordsOf(records', p[1], p[2]) :
                    records'[k].Count = m[p[1]][p[2]]]_vars

\* C12 as amended: one Record of the pair's count, zero and negative
\* counts included, for every entry of ids that is the pair's id (exactly
\* one when the id was appended once); none for a pair without entry; no
\* other Record.
C12_RecordPerEntryAndOccurrence ==
    [][(IsGetRecords /\ ~allNamespace') =>
          /\ \A p \in Pairs :
                /\ Cardinality(RecordsOf(records', p[1], p[2])) =
                      IF HasEntry(m, p[1], p[2])
                      THEN Occurrences(ids, p[1]) ELSE 0
                /\ \A k \in RecordsOf(records', p[1], p[2]) :
                      records'[k].Count = m[p[1]][p[2]]
          /\ \A k \in DOMAIN records' :
                \E p \in Pairs : k \in RecordsOf(records', p[1], p[2])]_vars

\* C12 witness: a per-namespace output of an id appended once that holds a
\* Record of count 0 and a Record of count -1.
C12_Witness ==
    /\ ~allNamespace
    /\ Len(records) = 2
    /\ \E id \in Range(ids) :
          /\ Occurrences(ids, id) = 1
          /\ id \in DOMAIN m /\ DOMAIN m[id] = Namespaces
          /\ \E k \in RecordsOfID(records, id) : records[k].Count = 0
          /\ \E k \in RecordsOfID(records, id) : records[k].Count = -1

\* list has registered its informers and every one of them has synced
AllSynced == pc # "start" /\ \A i \in DOMAIN informers : HasSynced(i)

\* the run is over
Done == pc \in {"rendered", "exit1"}

C13_State ==
    (pc # "start" /\ ~AllSynced) =>
        /\ pc = "syncing" /\ ~cancelled
        /\ ~SnapshotTaken /\ records = <<>> /\ err = ""

\* C13: as long as some registered informer has not synced, the run is in
\* the barrier loop: not cancelled, no snapshot taken, no record emitted
\* (the loop keeps polling; it does not return an error); and once every
\* informer has synced, the run passes the barrier and comes to its end.
C13_BarrierUntilAllSynced == [](C13_State) /\ (AllSynced ~> Done)

\* C13 witness: the barrier loop is past one informer and polls another
\* that has not listed yet.
C13_Witness ==
    /\ pc = "syncing"
    /\ \E i, j \in DOMAIN informers :
          i \in waited /\ j \notin waited /\ ~inf[j].listed

\* a step in which the empty watch error handler of informer i is called:
\* a failed first list, or a broken watch followed by a relist
IsWatchError(i) ==
    \/ ~inf[i].failed /\ inf'[i].failed
    \/ /\ Len(inf'[i].fifo) = Len(inf[i].fifo) + 1
       /\ inf'[i].fifo[Len(inf'[i].fifo)].obj = "DeletedFinalStateUnknown"

\* a step in which the DeleteFunc of informer i is handed a tombstone
IsTombstoneDelete(i) ==
    /\ ~inf[i].stopped /\ ~inf'[i].stopped
    /\ inf[i].pending # <<>>
    /\ Head(inf[i].pending).type = "delete"
    /\ Head(inf[i].pending).obj = "DeletedFinalStateUnknown"
    /\ inf'[i].pending = Tail(inf[i].pending)

C14_Step ==
    \A i \in DOMAIN inf :
        /\ (Running /\ IsWatchError(i)) =>
              /\ m' = m /\ calls' = calls
              /\ pc' = pc /\ err' = err
              /\ cancelled' = cancelled /\ waited' = waited
              /\ \A j \in DOMAIN inf \ {i} : inf'[j] = inf[j]
        /\ (Running /\ IsTombstoneDelete(i)) => m' = m

C14_State ==
    \A i \in DOMAIN inf :
        inf[i].failed =>
            /\ err = "" /\ pc = "syncing" /\ ~cancelled
            /\ \A j \in DOMAIN inf \ {i} :
                  /\ ~inf[j].stopped
                  /\ ~inf[j].listed => ENABLED InformerList(j, <<>>)
                  /\ inf[j].fifo # <<>> => ENABLED HandleDeltas(j)
                  /\ inf[j].pending # <<>> =>
                        ENABLED (AddFunc(j) \/ DeleteFunc(j))
                  /\ (HasSynced(j) /\ barrier # <<>> /\ Head(barrier) = j) =>
                        ENABLED WaitForNamedCacheSync(j)

\* C14: a step in which informer i's watch error handler is called leaves
\* the store, the error, the main goroutine, the cancellation and every
\* other informer as they were, and the tombstone a relist queues changes
\* no count; while informer i waits to list again after an error, the run
\* is in no error state and every other informer can still list, pop its
\* deltas, run its handlers and, when the barrier loop is at it, be taken
\* as synced.
C14_WatchErrorSwallowed == [](C14_State) /\ [][C14_Step]_vars

\* C14 witness: one informer's list has failed while another has synced,
\* has had an object counted and has been waited for.
C14_Witness ==
    \E i, j \in DOMAIN inf :
        /\ inf[i].failed
        /\ j \in waited /\ HasSynced(j)
        /\ j \in DOMAIN m

\* every informer's goroutines have ended: each saw the closed stop channel
\* and returned, or the process is over
AllStopped == Done \/ \A i \in DOMAIN inf : inf[i].stopped

C15_State ==
    /\ cancelled =>
          /\ AllSynced /\ waited = DOMAIN informers
          /\ pc \in {"listed", "snapshot", "rendered", "exit1"}
    /\ (pc = "listed" \/ SnapshotTaken) => cancelled
    /\ \A i \in DOMAIN inf : inf[i].stopped => cancelled

C15_Step ==
    /\ cancelled => cancelled'
    /\ cancelled' # cancelled =>
          /\ pc = "syncing" /\ pc' = "listed"
          /\ AllSynced
          /\ inf' = inf /\ m' = m /\ records' = records

\* C15: cc.cancel() is called in one step of the run, the one that ends the
\* barrier loop, when every informer has synced and before GetRecords; it
\* is never undone or repeated, and every run that reads the store has
\* called it; there is one stop channel, so no informer stops before the
\* call; after the call every informer's goroutines come to an end.
C15_CancelOnceAfterSync ==
    [](C15_State) /\ [][C15_Step]_vars /\ (cancelled ~> AllStopped)

\* C15 witness: after cc.cancel() and before GetRecords, one of two
\* informers has seen the closed channel and stopped, the other not yet.
C15_Witness ==
    /\ cancelled /\ pc = "listed"
    /\ \E i, j \in DOMAIN inf : inf[i].stopped /\ ~inf[j].stopped

\* the store after the calls of l, made one after the other
RECURSIVE Serial(_)
Serial(l) ==
    IF l = <<>> THEN <<>>
    ELSE LET c    == l[Len(l)]
             prev == Serial(SubSeq(l, 1, Len(l) - 1))
         IN  IF c.op = "Add" THEN IDMapAdd(prev, c.id, c.ns)
             ELSE IDMapDel(prev, c.id, c.ns)

\* C16: at most one goroutine is inside Add, Del or GetRecords; whenever
\* none is inside Add or Del, the store is the one the same calls give
\* when made one after the other in the order they took the lock (no
\* update is lost); what GetRecords reads is that store: every id it has
\* read has its namespace entries (never an id without a namespace entry)
\* and its result is a result of GetRecords on that store.
C16_Atomic ==
    /\ \A t1, t2 \in Threads :
          t1 # t2 => (th[t1].pc = "idle" \/ th[t2].pc = "idle")
    /\ (\A w \in Workers : th[w].pc = "idle") =>
          /\ m = Serial(log)
          /\ \A id \in DOMAIN m : DOMAIN m[id] # {}
    /\ th["r"].pc # "idle" =>
          \A id \in DOMAIN th["r"].seen :
              /\ id \in DOMAIN m /\ th["r"].seen[id] = m[id]
              /\ DOMAIN th["r"].seen[id] # {}
    /\ th["r"].pc = "unlock" =>
          records \in GetRecords(Serial(log), ids, order, allNamespace)

\* C16 witness: GetRecords is about to return Records after two Add and a
\* Del were made on one (id, namespace), and a handler goroutine is idle
\* until the lock is free.
C16_Witness ==
    /\ th["r"].pc = "unlock" /\ records # <<>>
    /\ lock = "r"
    /\ \E i, j, k \in DOMAIN log :
          /\ i < j /\ j < k
          /\ log[i].op = "Add" /\ log[j].op = "Add" /\ log[k].op = "Del"
          /\ log[i].id = log[j].id /\ log[i].ns = log[j].ns
          /\ log[i].id = log[k].id /\ log[i].ns = log[k].ns

\* C17 as claimed: a run that ends with exit status 1 (list failed, or no
\* Records after aggregation) has written a message to os.Stderr and
\* nothing to os.Stdout; a run ends with status 0 only with at least one
\* Record rendered.
C17_ErrorsToStderr ==
    /\ pc = "exit1" => (stderr # <<>> /\ stdout = <<>>)
    /\ pc = "rendered" => (Len(records) >= 1 /\ stdout = records)

\* C18: a step of Add, Del or GetRecords removes no entry: a pair that has
\* an entry before the call has one after it, and so has its id; a
\* GetRecords call leaves the store as it was.
C18_NoEntryRemoved ==
    [][/\ \A id \in DOMAIN m : id \in DOMAIN m'
       /\ \A p \in Pairs : HasEntry(m, p[1], p[2]) => HasEntry(m', p[1], p[2])
       /\ IsGetRecords => m' = m]_vars

\* C18 witness: after an Add, a Del that brought the count back to 0 and a
\* GetRecords call, the pair still has its entry, at 0.
C18_Witness ==
    \E p \in Pairs :
        /\ calls.add[p] = 1 /\ calls.del[p] = 1
        /\ HasEntry(m, p[1], p[2]) /\ m[p[1]][p[2]] = 0
        /\ records # <<>>

\* a step that is the call Del(p[1], p[2])
IsDel(p) == calls'.del[p] = calls.del[p] + 1

\* C19: Del for an id that has no entry leaves the store as it is; Del for
\* an id that has an entry changes the entry of its namespace alone, to
\* one less, creating it at -1 when the namespace had none.
C19_DelWithoutEntry ==
    [][\A p \in Pairs :
          IsDel(p) =>
              IF p[1] \notin DOMAIN m THEN m' = m
              ELSE /\ DOMAIN m' = DOMAIN m
                   /\ \A id \in DOMAIN m \ {p[1]} : m'[id] = m[id]
                   /\ DOMAIN m'[p[1]] = DOMAIN m[p[1]] \cup {p[2]}
                   /\ \A n \in DOMAIN m[p[1]] \ {p[2]} : m'[p[1]][n] = m[p[1]][n]
                   /\ m'[p[1]][p[2]] =
                         IF p[2] \in DOMAIN m[p[1]] THEN m[p[1]][p[2]] - 1
                         ELSE -1]_vars

\* C19 witness: Del calls were made, none after an Add, and the store is
\* empty.
C19_Witness ==
    /\ m = <<>>
    /\ \E p, q \in Pairs : p # q /\ calls.del[p] > 0 /\ calls.del[q] > 0

\* no Add was ever applied for id
NeverAdded(id) == \A n \in Namespaces : calls.add[<<id, n>>] = 0

C20_State ==
    \A id \in DOMAIN m : DOMAIN m[id] # {} /\ ~NeverAdded(id)

C20_Step ==
    IsGetRecords =>
        /\ \A id \in Range(ids) :
              NeverAdded(id) => RecordsOfID(records', id) = {}
        /\ \A k \in DOMAIN records' :
              /\ records'[k].GroupVersion # <<>>
              /\ \E id \in DOMAIN m : k \in RecordsOfID(records', id)

\* C20: every id of the store has at least one namespace entry, and is in
\* the store only once an Add was applied for it; GetRecords, in either
\* mode, returns no Record for a resolved id without an Add, and every
\* Record it returns has a non-empty group/version and belongs to an id
\* of the store.
C20_NoEmptyNamespaceMap == [](C20_State) /\ [][C20_Step]_vars

\* C20 witness: an aggregate output, not empty, that holds no Record for
\* the first resolved id, for which only a Del was called.
C20_Witness ==
    /\ allNamespace /\ records # <<>>
    /\ ids # <<>>
    /\ NeverAdded(ids[1])
    /\ \E n \in Namespaces : calls.del[<<ids[1], n>>] > 0
    /\ RecordsOfID(records, ids[1]) = {}

NoRepeat(sq) == \A i, j \in DOMAIN sq : sq[i] = sq[j] => i = j

\* C21 as claimed: the alias index lists an APIResourceGV at most once
\* under the key a token names, even when two of its aliases coincide; so
\* a single token that names one discovery entry puts its id into ids
\* once, and the id's Records appear once in the output.
C21_TokenResolvesOnce ==
    (pc # "start" /\ err = "") =>
        /\ \A k \in DOMAIN Tokens :
              Tokens[k] \in DOMAIN AliasMap =>
                  NoRepeat(AliasMap[Tokens[k]])
        /\ (Len(Tokens) = 1 /\ Cardinality(MatchedBy(Tokens[1])) = 1) =>
              /\ \A id \in Range(ids) : Occurrences(ids, id) = 1
              /\ (SnapshotTaken /\ ~allNamespace) =>
                    \A p \in Pairs :
                        Cardinality(RecordsOf(records, p[1], p[2])) <= 1
              /\ (SnapshotTaken /\ allNamespace) =>
                    \A id \in AllIDs :
                        Cardinality(RecordsOfID(records, id)) <= 1

=============================================================================
